---- MODULE Spec2Model ----
(***************************************************************************)
(* Model of the Aria agent runtime core (omarzorob/aria-os):               *)
(*   - the tool dispatcher, agent/executor.py (ToolExecutor)               *)
(*   - the conversation memory, agent/memory/session.py (SessionMemory)    *)
(* The dispatcher runs on one asyncio event loop: a coroutine gives up the *)
(* loop only at an await, so the part of execute() before its first await  *)
(* is one step and the completion of the awaited tool is another.          *)
(***************************************************************************)
EXTENDS Integers, Sequences, FiniteSets, TLC

VARIABLES
    call_log,   \* ToolExecutor._call_log: tool name -> timestamps, oldest first
    now,        \* the wall clock read by time.time()
    op,         \* the dispatcher entry point in progress: idle, execute, batch
    tasks,      \* one record per execute() coroutine of the operation in progress
    ret,        \* what the operation handed back to its caller
    stats,      \* what the last get_call_stats() returned
    max_history,\* SessionMemory.max_history
    messages,   \* SessionMemory._messages
    files,      \* session files on disk: path -> contents
    last,       \* the last SessionMemory operation and how it ended
    adds,       \* the add_message calls that alone filled the memory since it was empty
    reply,      \* what the last query of the memory returned
    adb_status, \* the device bridge's view of each serial: device, unauthorized, absent
    channel,    \* whether the discovery command can be run
    changes,    \* how often the devices or the channel have changed
    active_serial,     \* ADBManager._active_serial
    bridge,            \* ADBManager._bridge: the serial the cached handle targets
    validated,         \* whether the device of the cached handle was found authorized and online
    caller,            \* the get_device / select_device call of the request thread
    reconnect_running, \* ADBManager._reconnect_running
    last_known,        \* ADBManager._last_known_devices
    loops,             \* the reconnect threads: thread -> where it stands
    connect_callbacks,    \* ADBManager._connect_callbacks
    disconnect_callbacks, \* ADBManager._disconnect_callbacks
    events,            \* the events the callbacks were told of in the latest poll
    shutdown,          \* the shutdown handler of main(): where it stands, how its save went
    plan               \* the Plan handed to Planner.execute_plan, and where that call stands

dispatcherVars == <<call_log, now, op, tasks, ret, stats>>
memoryVars == <<max_history, messages, files, last, adds, reply>>
hookVars == <<connect_callbacks, disconnect_callbacks, events>>
deviceVars == <<adb_status, channel, changes, active_serial, bridge, validated, caller,
                reconnect_running, last_known, loops, connect_callbacks,
                disconnect_callbacks, events>>
vars == <<call_log, now, op, tasks, ret, stats, max_history, messages, files, last, adds, reply,
          adb_status, channel, changes, active_serial, bridge, validated, caller,
          reconnect_running, last_known, loops, connect_callbacks, disconnect_callbacks,
          events, shutdown, plan>>

\* the device manager, the devices, the shutdown handler and the planner are
\* left alone
DeviceIdle == UNCHANGED <<deviceVars, shutdown, plan>>

----------------------------------------------------------------------------
(* Values shared by the model                                              *)

\* Python's None, for string-valued fields
NONE == "<None>"
\* no plan has been made
NoPlan == [steps |-> <<>>, pc |-> "none", at |-> 0]
\* a key or attribute that the call object does not have
ABSENT == "<absent>"

----------------------------------------------------------------------------
(* Bounds                                                                  *)

\* rate_limit_per_minute handed to the constructor
RateLimit == 2
\* largest list handed to execute_batch
MaxBatch == 2
\* last clock value explored
MaxTime == 61

\* largest max_history handed to the SessionMemory constructor
MaxCap == 11
\* last reading of the clock taken by SessionMemory
MaxClock == 12
\* the times a run saves the session to one path
MaxSaves == 1
\* the changes of device status and channel in a run
MaxChanges == 2
\* the callbacks registered for one kind of event
MaxCallbacks == 2
\* the times devices drop off and come back in a run that watches one session
MaxFlaps == 4

\* length of the sliding window of _rate_limit_ok, in seconds
WINDOW_SECS == 60
\* session.py: CHARS_PER_TOKEN
CHARS_PER_TOKEN == 4
\* session.py, summarize: keep_recent
KEEP_RECENT == 10
\* session.py, summarize: characters of a message shown in its digest line
SNIPPET_CHARS == 100

----------------------------------------------------------------------------
(* Tool calls as they reach the dispatcher                                 *)

\* the argument names used by the tools of the model
Fields == {"location", "q"}

\* a dict of arguments: every field is ABSENT, None, or holds a value
Dict(loc, q) == [location |-> loc, q |-> q]
EmptyDict == Dict(ABSENT, ABSENT)

\* the value of a call's "arguments": a dict, None (not a dict), or no such
\* key / attribute at all
ArgsDict(d) == [kind |-> "dict", d |-> d]
ArgsNone == [kind |-> "none", d |-> EmptyDict]
ArgsAbsent == [kind |-> "absent", d |-> EmptyDict]

ArgVals ==
    { ArgsDict(EmptyDict), ArgsDict(Dict("v", ABSENT)), ArgsDict(Dict(NONE, ABSENT)),
      ArgsDict(Dict(ABSENT, "v")), ArgsNone, ArgsAbsent }

\* a tool call is a mapping (dict) or an object with attributes, such as
\* agent.llm.client.ToolCall, whose call_id defaults to ""
ToolCalls ==
    [ style : {"mapping", "object"},
      name : {"ping", "weather", "ghost"},
      arguments : ArgVals,
      call_id : {"c1", "", ABSENT} ]

\* the calls handed to execute_batch
BatchCalls ==
    { [style |-> "mapping", name |-> "ping", arguments |-> ArgsDict(EmptyDict), call_id |-> "c1"],
      [style |-> "mapping", name |-> "weather", arguments |-> ArgsDict(Dict("v", ABSENT)), call_id |-> "c2"],
      [style |-> "mapping", name |-> "weather", arguments |-> ArgsDict(EmptyDict), call_id |-> "c3"],
      [style |-> "object", name |-> "ghost", arguments |-> ArgsDict(Dict(ABSENT, "v")), call_id |-> "c4"],
      [style |-> "object", name |-> "ping", arguments |-> ArgsDict(Dict(ABSENT, "v")), call_id |-> ""] }

\* the registry: tool name -> the "required" list of its input_schema
Registry == [ping |-> {}, weather |-> {"location"}]

\* every key the call log can get
LogKeys == {"ping", "weather", "ghost", "unknown"}

\* what a tool's execute can raise: a TypeError from binding the keyword
\* arguments to the signature, a TypeError from inside the body, another error
Exceptions ==
    { [cls |-> "TypeError", msg |-> "unexpected keyword argument", boundary |-> TRUE],
      [cls |-> "TypeError", msg |-> "unsupported operand type", boundary |-> FALSE],
      [cls |-> "ValueError", msg |-> "boom", boundary |-> FALSE] }

\* what a tool's execute can return
ReturnValues == {"sunny"}

----------------------------------------------------------------------------
(* ToolResult and its error strings                                        *)

NoError == [fmt |-> NONE, tool |-> NONE, limit |-> 0, cls |-> NONE, msg |-> NONE]
ErrInvalid(name) ==
    [fmt |-> "Invalid arguments for tool '{name}'", tool |-> name, limit |-> 0, cls |-> NONE, msg |-> NONE]
ErrRateLimit(name, limit) ==
    [fmt |-> "Rate limit exceeded for tool '{name}' - max {limit}/min", tool |-> name, limit |-> limit,
     cls |-> NONE, msg |-> NONE]
ErrUnknown(name) ==
    [fmt |-> "Unknown tool: '{name}'", tool |-> name, limit |-> 0, cls |-> NONE, msg |-> NONE]
ErrBadArguments(name, exc) ==
    [fmt |-> "Bad arguments for {name}: {exc}", tool |-> name, limit |-> 0, cls |-> NONE, msg |-> exc.msg]
ErrException(exc) ==
    [fmt |-> "{type(exc).__name__}: {exc}", tool |-> NONE, limit |-> 0, cls |-> exc.cls, msg |-> exc.msg]

\* what an execute() coroutine ends with: a ToolResult, or an exception
NoOutcome ==
    [kind |-> "none", tool_name |-> NONE, result |-> NONE, error |-> NoError, call_id |-> NONE, exc |-> NONE]
ToolResult(tool_name, result, error, call_id) ==
    [kind |-> "ToolResult", tool_name |-> tool_name, result |-> result, error |-> error,
     call_id |-> call_id, exc |-> NONE]
Raises(cls) ==
    [kind |-> "raised", tool_name |-> NONE, result |-> NONE, error |-> NoError, call_id |-> NONE, exc |-> cls]

\* ToolResult.succeeded
succeeded(r) == r.error = NoError

----------------------------------------------------------------------------
(* Reading the duck-typed call: getattr(tc, f, d1) or tc.get(f, d2)         *)

\* getattr(tool_call, f, dflt): a mapping has none of these attributes
GetAttr(tc, f, dflt) ==
    IF tc.style = "object" /\ tc[f] # ABSENT THEN tc[f] ELSE dflt

\* tool_call.get(f, dflt) on a mapping
DictGet(tc, f, dflt) == IF tc[f] # ABSENT THEN tc[f] ELSE dflt

\* truth value of a name or call id
TruthyStr(v) == v \notin {NONE, "", ABSENT}

\* truth value of an arguments value: None and the empty dict are false
TruthyArgs(a) == a.kind = "dict" /\ \E f \in Fields : a.d[f] # ABSENT

\* "x or tool_call.get(...)": the right side is evaluated only when x is
\* false, and an object without a get method then raises AttributeError
OrGet(tc, x, truthy, fromGet) ==
    IF truthy THEN [raised |-> FALSE, val |-> x]
    ELSE IF tc.style = "mapping" THEN [raised |-> FALSE, val |-> fromGet]
    ELSE [raised |-> TRUE, val |-> x]

\* executor.py line 113 (dflt "unknown") and line 219 (dflt "")
CallName(tc, dflt) ==
    OrGet(tc, GetAttr(tc, "name", NONE), TruthyStr(GetAttr(tc, "name", NONE)),
          DictGet(tc, "name", dflt))

\* executor.py lines 114 and 220; a missing attribute reads as None
CallArguments(tc) ==
    LET a == IF tc.style = "object" /\ tc.arguments.kind # "absent" THEN tc.arguments ELSE ArgsNone
    IN OrGet(tc, a, TruthyArgs(a),
             IF tc.arguments.kind # "absent" THEN tc.arguments ELSE ArgsDict(EmptyDict))

\* executor.py line 115
CallId(tc) ==
    OrGet(tc, GetAttr(tc, "call_id", ""), TruthyStr(GetAttr(tc, "call_id", "")),
          DictGet(tc, "call_id", ""))

----------------------------------------------------------------------------
(* Registry, validation, rate limiting                                     *)

\* _get_tool: the registered tool, or None
GetTool(name) == IF name \in DOMAIN Registry THEN name ELSE NONE

\* validate_args: TRUE / FALSE, or an AttributeError from reading the call
validate_args(tc) ==
    LET n == CallName(tc, "")
        a == CallArguments(tc)
    IN  IF n.raised \/ a.raised THEN [raised |-> TRUE, val |-> FALSE]
        ELSE IF a.val.kind # "dict" THEN [raised |-> FALSE, val |-> FALSE]
        ELSE IF GetTool(n.val) = NONE THEN [raised |-> FALSE, val |-> TRUE]
        ELSE [raised |-> FALSE,
              val |-> \A f \in Registry[n.val] : a.val.d[f] \notin {ABSENT, NONE}]

\* the while loop of _rate_limit_ok: drop the leading timestamps older than
\* the window
RECURSIVE Evict(_, _)
Evict(calls, t) ==
    IF calls # <<>> /\ Head(calls) < t - WINDOW_SECS THEN Evict(Tail(calls), t) ELSE calls

\* (variant: one call too many is let through)
WithinLimitOffByOne(calls, limit) == Len(calls) <= limit

\* the verdict of _rate_limit_ok on the evicted deque
WithinLimit(calls, limit) == Len(calls) < limit

\* _record_call
RecordCall(calls, t) == Append(calls, t)

\* the timestamps of a deque that lie in the trailing window at time t
InWindow(calls, t) == { k \in 1..Len(calls) : calls[k] >= t - WINDOW_SECS }

----------------------------------------------------------------------------
(* ToolExecutor.execute, up to its first await                             *)

\* how the synchronous part of execute ends: with an outcome (a ToolResult or
\* an exception), or suspended on the invoked tool (running); log is the
\* call log it leaves behind
Ended(out, log) == [running |-> FALSE, out |-> out, log |-> log]
Invoked(name, call_id, log) ==
    [running |-> TRUE, out |-> ToolResult(name, NONE, NoError, call_id), log |-> log]

\* (variant: one window shared by all tools instead of one per tool name)
AdmitSharedWindow(name, call_id, log, t) ==
    LET calls == Evict(log[name], t)
        checked == [log EXCEPT ![name] = calls]
        others == { k \in LogKeys \ {name} : InWindow(log[k], t) # {} }
    IN  IF ~WithinLimit(calls, RateLimit) \/ Cardinality(others) + Len(calls) >= RateLimit
        THEN Ended(ToolResult(name, NONE, ErrRateLimit(name, RateLimit), call_id), checked)
        ELSE IF GetTool(name) = NONE
        THEN Ended(ToolResult(name, NONE, ErrUnknown(name), call_id), checked)
        ELSE Invoked(name, call_id, [checked EXCEPT ![name] = RecordCall(calls, t)])

\* (variant: the call is recorded before the rate limit is checked)
AdmitRecordsFirst(name, call_id, log, t) ==
    LET calls == Evict(log[name], t)
        recorded == [log EXCEPT ![name] = RecordCall(calls, t)]
    IN  IF ~WithinLimit(calls, RateLimit)
        THEN Ended(ToolResult(name, NONE, ErrRateLimit(name, RateLimit), call_id), recorded)
        ELSE IF GetTool(name) = NONE
        THEN Ended(ToolResult(name, NONE, ErrUnknown(name), call_id), recorded)
        ELSE Invoked(name, call_id, recorded)

\* the rate-limit check, the lookup of the tool and the recording of the
\* call: executor.py lines 126-148
Admit(name, call_id, log, t) ==
    LET calls == Evict(log[name], t)
        checked == [log EXCEPT ![name] = calls]
    IN  IF ~WithinLimit(calls, RateLimit)
        THEN Ended(ToolResult(name, NONE, ErrRateLimit(name, RateLimit), call_id), checked)
        ELSE IF GetTool(name) = NONE
        THEN Ended(ToolResult(name, NONE, ErrUnknown(name), call_id), checked)
        ELSE Invoked(name, call_id, [checked EXCEPT ![name] = RecordCall(calls, t)])

\* executor.py lines 113-148
ExecuteSync(tc, log, t) ==
    LET n == CallName(tc, "unknown")
        a == CallArguments(tc)
        c == CallId(tc)
        v == validate_args(tc)
    IN  IF n.raised \/ a.raised \/ c.raised \/ v.raised
        THEN Ended(Raises("AttributeError"), log)
        ELSE IF ~v.val
        THEN Ended(ToolResult(n.val, NONE, ErrInvalid(n.val), c.val), log)
        ELSE Admit(n.val, c.val, log, t)

\* executor.py lines 156-163: the awaited tool returned
OnReturn(name, call_id, value) == ToolResult(name, value, NoError, call_id)

\* (variant: a failed call keeps a result next to its error)
OnExceptionKeepsResult(name, call_id, exc) ==
    ToolResult(name, "partial", ErrException(exc), call_id)

\* executor.py lines 165-186: the awaited tool raised
OnException(name, call_id, exc) ==
    IF exc.cls = "TypeError"
    THEN ToolResult(name, NONE, ErrBadArguments(name, exc), call_id)
    ELSE ToolResult(name, NONE, ErrException(exc), call_id)

----------------------------------------------------------------------------
(* The coroutines of the operation in progress                             *)

NoExc == [cls |-> NONE, msg |-> NONE, boundary |-> FALSE]

\* what the tool of a task did: nothing yet, returned a value, raised
NotRun == [kind |-> "none", val |-> NONE, exc |-> NoExc]
Returned(v) == [kind |-> "returned", val |-> v, exc |-> NoExc]
Raised(e) == [kind |-> "raised", val |-> NONE, exc |-> e]

\* a coroutine object made by self.execute(tc), not yet started; seen notes
\* how many timestamps of the call's tool lay in the trailing window when
\* its first step ran
NewTask(tc) ==
    [call |-> tc, pc |-> "pending", outcome |-> NoOutcome, invoked |-> FALSE,
     did |-> NotRun, seen |-> 0]

\* the coroutine after its first step, which ran to its first await
Started(task, log, t) ==
    LET r == ExecuteSync(task.call, log, t)
        n == CallName(task.call, "unknown")
    IN  [task EXCEPT !.pc = IF r.running THEN "running" ELSE "done",
                     !.outcome = r.out,
                     !.invoked = r.running,
                     !.seen = IF n.raised THEN 0 ELSE Cardinality(InWindow(log[n.val], t))]

NoReturn == [kind |-> "none", results |-> <<>>, exc |-> NONE]

\* no stats were asked for; the entries get_call_stats returned
NoStats == [kind |-> "none", entries |-> {}]
Stats(entries) == [kind |-> "returned", entries |-> entries]
ReturnsList(rs) == [kind |-> "returned", results |-> rs, exc |-> NONE]
RaisesToCaller(cls) == [kind |-> "raised", results |-> <<>>, exc |-> cls]

\* asyncio.gather(*tasks): the results in the order of the awaitables
Gather(ts) == [k \in 1..Len(ts) |-> ts[k].outcome]

\* the tasks that ended with an exception
RaisedTasks(ts) == { i \in 1..Len(ts) : ts[i].outcome.kind = "raised" }

AllDone == \A i \in 1..Len(tasks) : tasks[i].pc = "done"

\* no dispatcher operation is in progress
Idle == op = "idle"

DispatcherInit ==
    /\ call_log = [k \in LogKeys |-> <<>>]
    /\ now = 0
    /\ op = "idle"
    /\ tasks = <<>>
    /\ ret = NoReturn
    /\ stats = NoStats

\* await executor.execute(tool_call): the caller runs the coroutine to its
\* first await, or to its end when no tool is invoked
Execute(tc) ==
    /\ Idle
    /\ op' = "execute"
    /\ LET t == Started(NewTask(tc), call_log, now)
       IN  /\ tasks' = <<t>>
           /\ call_log' = ExecuteSync(tc, call_log, now).log
           /\ ret' = IF t.pc # "done" THEN NoReturn
                     ELSE IF t.outcome.kind = "raised" THEN RaisesToCaller(t.outcome.exc)
                     ELSE ReturnsList(<<t.outcome>>)
    /\ UNCHANGED now
    /\ UNCHANGED <<stats, memoryVars>>
    /\ DeviceIdle

\* await executor.execute_batch(tool_calls): executor.py lines 198-203;
\* gather wraps every coroutine in a task, none of which has run yet
ExecuteBatch(tcs) ==
    /\ Idle
    /\ op' = "batch"
    /\ tasks' = [i \in 1..Len(tcs) |-> NewTask(tcs[i])]
    /\ ret' = IF tcs = <<>> THEN ReturnsList(<<>>) ELSE NoReturn
    /\ UNCHANGED <<call_log, now>>
    /\ UNCHANGED <<stats, memoryVars>>
    /\ DeviceIdle

\* the event loop runs the first step of the i-th task of the batch; the
\* tasks are started in the order in which gather created them
Start(i) ==
    /\ tasks[i].pc = "pending"
    /\ \A j \in 1..(i - 1) : tasks[j].pc # "pending"
    /\ call_log' = ExecuteSync(tasks[i].call, call_log, now).log
    /\ tasks' = [tasks EXCEPT ![i] = Started(@, call_log, now)]
    /\ UNCHANGED <<now, op, ret>>
    /\ UNCHANGED <<stats, memoryVars>>
    /\ DeviceIdle

\* what a direct caller of execute gets once the tool is through
Resumed(out) ==
    IF op = "execute" THEN ReturnsList(<<out>>) ELSE ret

\* the tool invoked by the i-th coroutine returns a value
ToolReturns(i, value) ==
    /\ tasks[i].pc = "running"
    /\ LET out == OnReturn(tasks[i].outcome.tool_name, tasks[i].outcome.call_id, value)
       IN  /\ tasks' = [tasks EXCEPT ![i] =
                  [@ EXCEPT !.pc = "done", !.outcome = out, !.did = Returned(value)]]
           /\ ret' = Resumed(out)
    /\ UNCHANGED <<call_log, now, op>>
    /\ UNCHANGED <<stats, memoryVars>>
    /\ DeviceIdle

\* the tool invoked by the i-th coroutine raises
ToolRaises(i, exc) ==
    /\ tasks[i].pc = "running"
    /\ LET out == OnException(tasks[i].outcome.tool_name, tasks[i].outcome.call_id, exc)
       IN  /\ tasks' = [tasks EXCEPT ![i] =
                  [@ EXCEPT !.pc = "done", !.outcome = out, !.did = Raised(exc)]]
           /\ ret' = Resumed(out)
    /\ UNCHANGED <<call_log, now, op>>
    /\ UNCHANGED <<stats, memoryVars>>
    /\ DeviceIdle

\* gather has every result: execute_batch returns list(results)
BatchReturns ==
    /\ op = "batch"
    /\ ret = NoReturn
    /\ AllDone
    /\ RaisedTasks(tasks) = {}
    /\ ret' = ReturnsList(Gather(tasks))
    /\ UNCHANGED <<call_log, now, op, tasks>>
    /\ UNCHANGED <<stats, memoryVars>>
    /\ DeviceIdle

\* return_exceptions=False: the exception of a task is raised to the caller
\* of execute_batch as soon as gather sees it; the other tasks are not
\* cancelled and run on
BatchRaises(i) ==
    /\ op = "batch"
    /\ ret = NoReturn
    /\ i \in RaisedTasks(tasks)
    /\ ret' = RaisesToCaller(tasks[i].outcome.exc)
    /\ UNCHANGED <<call_log, now, op, tasks>>
    /\ UNCHANGED <<stats, memoryVars>>
    /\ DeviceIdle

\* the caller has its answer and every coroutine is through: the results
\* are dropped and the dispatcher keeps nothing but the call log
Discard ==
    /\ op # "idle"
    /\ ret # NoReturn
    /\ AllDone
    /\ op' = "idle"
    /\ tasks' = <<>>
    /\ ret' = NoReturn
    /\ UNCHANGED <<call_log, now>>
    /\ UNCHANGED <<stats, memoryVars>>
    /\ DeviceIdle

\* time passes: to the last second at which a timestamp is still inside the
\* window, or one second beyond it
Tick(d) ==
    /\ now + d <= MaxTime
    /\ now' = now + d
    /\ UNCHANGED <<call_log, op, tasks, ret>>
    /\ UNCHANGED <<stats, memoryVars>>
    /\ DeviceIdle

\* (variant: every timestamp still in the log is counted)
get_call_stats_unwindowed(log, t) ==
    { <<name, Len(log[name])>> : name \in { k \in LogKeys : Len(log[k]) > 0 } }

\* get_call_stats(): the entries of the dict it returns, as pairs of a tool
\* name and its count
get_call_stats(log, t) ==
    LET recent(name) ==
            Cardinality({ k \in 1..Len(log[name]) : log[name][k] >= t - WINDOW_SECS })
    IN  { <<name, recent(name)>> : name \in { k \in LogKeys : recent(k) > 0 } }

\* the monitoring side asks for the call stats; the event loop runs the
\* method from its first line to its last
GetCallStats ==
    /\ stats = NoStats
    /\ stats' = Stats(get_call_stats(call_log, now))
    /\ UNCHANGED <<call_log, now, op, tasks, ret>>
    /\ UNCHANGED memoryVars
    /\ DeviceIdle

\* the monitoring side has read the stats
StatsTaken ==
    /\ stats # NoStats
    /\ stats' = NoStats
    /\ UNCHANGED <<call_log, now, op, tasks, ret>>
    /\ UNCHANGED memoryVars
    /\ DeviceIdle

\* the lists handed to execute_batch
Batches == UNION { [1..n -> BatchCalls] : n \in 0..MaxBatch }

DispatcherNext ==
    \/ \E tc \in ToolCalls : Execute(tc)
    \/ \E tcs \in Batches : ExecuteBatch(tcs)
    \/ \E i \in 1..Len(tasks) : Start(i)
    \/ \E i \in 1..Len(tasks), value \in ReturnValues : ToolReturns(i, value)
    \/ \E i \in 1..Len(tasks), exc \in Exceptions : ToolRaises(i, exc)
    \/ BatchReturns
    \/ \E i \in 1..Len(tasks) : BatchRaises(i)
    \/ Discard
    \/ \E d \in {WINDOW_SECS, WINDOW_SECS + 1} : Tick(d)

----------------------------------------------------------------------------
(* SessionMemory                                                           *)

\* the text of a message: an identity, its length in characters and, for a
\* summary, its digest lines
Text(id, len) == [id |-> id, len |-> len, lines |-> <<>>]
NoText == Text(0, 0)

\* _count_tokens without tiktoken: max(1, len(text) // 4)
count_tokens(text) ==
    IF text.len \div CHARS_PER_TOKEN >= 1 THEN text.len \div CHARS_PER_TOKEN ELSE 1

\* Message(role, content, timestamp, tokens)
Message(role, content, timestamp, tokens) ==
    [role |-> role, content |-> content, timestamp |-> timestamp, tokens |-> tokens]

\* what the n-th reading of the clock finds the caller adding: roles take
\* turns, and every third text is longer than a digest line shows
RoleAt(n) == IF n % 2 = 1 THEN "user" ELSE "assistant"
TextAt(n) == Text(n, IF n % 3 = 0 THEN SNIPPET_CHARS + 20 ELSE 3 * n)

\* the max_history values handed to the constructor
Caps == {0, 2, MaxCap}

\* the paths of session files
Paths == {"session.json"}

\* a field that a JSON object of a session file does not have
MISSING == -1

\* a session file: has_messages tells whether the object has "messages",
\* saves counts the times save has written the path
NoFile ==
    [exists |-> FALSE, has_messages |-> FALSE, max_history |-> MISSING, messages |-> <<>>,
     saves |-> 0]
SessionFile(cap, msgs) ==
    [exists |-> TRUE, has_messages |-> TRUE, max_history |-> cap, messages |-> msgs,
     saves |-> 0]

\* a session of twelve messages kept by an earlier run
LongSession ==
    [k \in 1..(KEEP_RECENT + 2) |->
        Message(IF k % 2 = 1 THEN "user" ELSE "assistant",
                Text(200 + k, IF k = 2 THEN SNIPPET_CHARS + 1 ELSE 8), k, 2)]

\* the session file of that run
LongFile == SessionFile(KEEP_RECENT + 2, LongSession)

\* session files found at start that save did not write: an object without "messages", an
\* older file without "max_history", a file whose second entry has no "role"
ForeignFiles ==
    { [exists |-> TRUE, has_messages |-> FALSE, max_history |-> 2, messages |-> <<>>,
       saves |-> 0],
      SessionFile(MISSING,
          << Message("user", Text(101, 8), 1, 2),
             Message("assistant", Text(102, 8), MISSING, MISSING),
             Message("user", Text(103, 8), 3, 2) >>),
      SessionFile(MaxCap,
          << Message("user", Text(104, 8), 1, 2),
             Message(ABSENT, Text(105, 8), 2, 2),
             Message("user", Text(106, 8), 3, 2) >>) }

\* how the last operation on the memory ended, and what it returned
Outcome(name, status, text) == [op |-> name, status |-> status, returned |-> text]

\* the last operation returned nothing: add_message, clear, save
Quiet == Outcome("none", "ok", NoText)

\* the dispatcher is left alone
DispatcherIdle == UNCHANGED <<call_log, op, tasks, ret, stats>>

\* the memory was changed by something other than add_message since it was empty
MIXED == -1

\* no query has been answered since the memory last changed
NoReply == [query |-> NONE, arg |-> 0, result |-> <<>>]

\* a new memory next to session files drawn from found
MemoryInitWith(found) ==
    /\ max_history \in Caps
    /\ messages = <<>>
    /\ files \in [Paths -> found]
    /\ last = Quiet
    /\ adds = 0
    /\ reply = NoReply

MemoryInit == MemoryInitWith({NoFile} \cup ForeignFiles)

\* (variant: the newest messages are dropped instead of the oldest)
TrimNewest(msgs, cap) ==
    IF Len(msgs) > cap THEN SubSeq(msgs, 1, cap) ELSE msgs

\* SessionMemory(max_history=cap): a new, empty memory takes the place of the
\* old one, as at the start of a run
Fresh(cap) ==
    /\ max_history' = cap
    /\ messages' = <<>>
    /\ last' = Quiet
    /\ adds' = 0
    /\ reply' = NoReply
    /\ UNCHANGED <<files, now>>
    /\ DispatcherIdle
    /\ DeviceIdle

\* the trimming of add_message: session.py lines 107-109
Trim(msgs, cap) ==
    IF Len(msgs) > cap THEN SubSeq(msgs, Len(msgs) - cap + 1, Len(msgs)) ELSE msgs

\* add_message(role, content)
AddMessage(role, content) ==
    /\ now < MaxClock
    /\ messages' = Trim(Append(messages, Message(role, content, now, count_tokens(content))),
                        max_history)
    /\ now' = now + 1
    /\ last' = Quiet
    /\ adds' = IF adds = MIXED THEN MIXED ELSE adds + 1
    /\ reply' = NoReply
    /\ UNCHANGED <<max_history, files>>
    /\ DispatcherIdle
    /\ DeviceIdle

\* clear()
Clear ==
    /\ messages' = <<>>
    /\ last' = Quiet
    /\ adds' = 0
    /\ reply' = NoReply
    /\ UNCHANGED <<max_history, files, now>>
    /\ DispatcherIdle
    /\ DeviceIdle

\* the digest line of a message: its label and its first 100 characters,
\* followed by an ellipsis when it is longer
Digest(msg) ==
    [label |-> IF msg.role = "user" THEN "User" ELSE "Aria",
     id |-> msg.content.id,
     shown |-> IF msg.content.len > SNIPPET_CHARS THEN SNIPPET_CHARS ELSE msg.content.len,
     cut |-> msg.content.len > SNIPPET_CHARS]

\* the characters of the digest lines, each with the newline before it
RECURSIVE LinesLen(_)
LinesLen(lines) ==
    IF lines = <<>> THEN 0
    ELSE 1 + 8 + Head(lines).shown + (IF Head(lines).cut THEN 1 ELSE 0) + LinesLen(Tail(lines))

\* (variant: the digest lines run from the newest message to the oldest)
SummaryTextNewestFirst(older) ==
    LET lines == [k \in 1..Len(older) |-> Digest(older[Len(older) - k + 1])]
    IN  [id |-> 0,
         len |-> 42 + (IF Len(older) >= 10 THEN 2 ELSE 1) + LinesLen(lines),
         lines |-> lines]

\* the summary text of the older messages: session.py lines 188-194
SummaryText(older) ==
    LET lines == [k \in 1..Len(older) |-> Digest(older[k])]
    IN  [id |-> 0,
         len |-> 42 + (IF Len(older) >= 10 THEN 2 ELSE 1) + LinesLen(lines),
         lines |-> lines]

\* (variant: ten messages are already summarized)
SummarizeFromTen ==
    /\ now < MaxClock
    /\ IF Len(messages) < KEEP_RECENT
       THEN /\ last' = Outcome("summarize", "ok", NoText)
            /\ UNCHANGED <<messages, now, adds>>
       ELSE LET older == SubSeq(messages, 1, Len(messages) - KEEP_RECENT)
                recent == SubSeq(messages, Len(messages) - KEEP_RECENT + 1, Len(messages))
                text == SummaryText(older)
            IN  /\ messages' = <<Message("system", text, now, count_tokens(text))>> \o recent
                /\ last' = Outcome("summarize", "ok", text)
                /\ now' = now + 1
                /\ adds' = MIXED
    /\ reply' = NoReply
    /\ UNCHANGED <<max_history, files>>
    /\ DispatcherIdle
    /\ DeviceIdle

\* summarize()
Summarize ==
    /\ now < MaxClock
    /\ IF Len(messages) <= KEEP_RECENT
       THEN /\ last' = Outcome("summarize", "ok", NoText)
            /\ UNCHANGED <<messages, now, adds>>
       ELSE LET older == SubSeq(messages, 1, Len(messages) - KEEP_RECENT)
                recent == SubSeq(messages, Len(messages) - KEEP_RECENT + 1, Len(messages))
                text == SummaryText(older)
            IN  /\ messages' = <<Message("system", text, now, count_tokens(text))>> \o recent
                /\ last' = Outcome("summarize", "ok", text)
                /\ now' = now + 1
                /\ adds' = MIXED
    /\ reply' = NoReply
    /\ UNCHANGED <<max_history, files>>
    /\ DispatcherIdle
    /\ DeviceIdle

\* the file save(path) writes
Saved(path) ==
    [SessionFile(max_history, messages) EXCEPT !.saves = files[path].saves + 1]

\* save(path)
Save(path) ==
    /\ files[path].saves < MaxSaves
    /\ files' = [files EXCEPT ![path] = Saved(path)]
    /\ last' = Quiet
    /\ reply' = NoReply
    /\ UNCHANGED <<max_history, messages, now, adds>>
    /\ DispatcherIdle
    /\ DeviceIdle

\* (variant: the timestamps of the file are not read)
RECURSIVE ReadEntriesUntimed(_)
ReadEntriesUntimed(entries) ==
    IF entries = <<>> \/ Head(entries).role = ABSENT THEN <<>>
    ELSE << Message(Head(entries).role, Head(entries).content, 0,
                    IF Head(entries).tokens = MISSING THEN 0 ELSE Head(entries).tokens) >>
         \o ReadEntriesUntimed(Tail(entries))

\* the entries of a file read up to the first one without "role" or
\* "content"; a missing timestamp or token count reads as 0
RECURSIVE ReadEntries(_)
ReadEntries(entries) ==
    IF entries = <<>> \/ Head(entries).role = ABSENT THEN <<>>
    ELSE << Message(Head(entries).role, Head(entries).content,
                    IF Head(entries).timestamp = MISSING THEN 0 ELSE Head(entries).timestamp,
                    IF Head(entries).tokens = MISSING THEN 0 ELSE Head(entries).tokens) >>
         \o ReadEntries(Tail(entries))

\* (variant: a file without "messages" is read as an empty session)
LoadLenient(path) ==
    LET f == files[path]
        read == ReadEntries(f.messages)
    IN  /\ IF ~f.exists
           THEN /\ last' = Outcome("load", "FileNotFoundError", NoText)
                /\ UNCHANGED <<messages, max_history, adds>>
           ELSE IF ~f.has_messages
           THEN /\ messages' = <<>>
                /\ last' = Outcome("load", "ok", NoText)
                /\ adds' = MIXED
                /\ UNCHANGED max_history
           ELSE IF Len(read) < Len(f.messages)
           THEN /\ messages' = read
                /\ last' = Outcome("load", "KeyError", NoText)
                /\ adds' = MIXED
                /\ UNCHANGED max_history
           ELSE /\ messages' = read
                /\ max_history' = IF f.max_history = MISSING THEN max_history ELSE f.max_history
                /\ last' = Outcome("load", "ok", NoText)
                /\ adds' = MIXED
        /\ reply' = NoReply
        /\ UNCHANGED <<files, now>>
        /\ DispatcherIdle
        /\ DeviceIdle

\* load(path)
Load(path) ==
    LET f == files[path]
        read == ReadEntries(f.messages)
    IN  /\ IF ~f.exists
           THEN /\ last' = Outcome("load", "FileNotFoundError", NoText)
                /\ UNCHANGED <<messages, max_history, adds>>
           ELSE IF ~f.has_messages
           THEN /\ last' = Outcome("load", "ValueError", NoText)
                /\ UNCHANGED <<messages, max_history, adds>>
           ELSE IF Len(read) < Len(f.messages)
           THEN /\ messages' = read
                /\ last' = Outcome("load", "KeyError", NoText)
                /\ adds' = MIXED
                /\ UNCHANGED max_history
           ELSE /\ messages' = read
                /\ max_history' = IF f.max_history = MISSING THEN max_history ELSE f.max_history
                /\ last' = Outcome("load", "ok", NoText)
                /\ adds' = MIXED
        /\ reply' = NoReply
        /\ UNCHANGED <<files, now>>
        /\ DispatcherIdle
        /\ DeviceIdle

\* Message.to_dict: the part of a message handed to the LLM
to_dict(msg) == [role |-> msg.role, content |-> msg.content]

\* the tokens get_context_window charges for a message: the cached count,
\* or a fresh estimate when the cached count is 0
Cost(msg) == IF msg.tokens # 0 THEN msg.tokens ELSE count_tokens(msg.content)

\* (variant: the selection is handed back newest first)
NewestFirst(seq) == seq

\* list.reverse()
Reverse(seq) == [k \in 1..Len(seq) |-> seq[Len(seq) - k + 1]]

\* (variant: the scan stops at the budget even when nothing is selected yet)
RECURSIVE SelectStrict(_, _, _, _)
SelectStrict(msgs, k, selected, max_tokens) ==
    LET used == IF selected = <<>> THEN 0
                ELSE selected[Len(selected)].used
    IN  IF k = 0 THEN selected
        ELSE IF used + Cost(msgs[k]) > max_tokens THEN selected
        ELSE SelectStrict(msgs, k - 1,
                          Append(selected, [msg |-> msgs[k], used |-> used + Cost(msgs[k])]),
                          max_tokens)

\* the loop of get_context_window over reversed(self._messages), from index k
\* down: selected holds the messages taken so far, newest first, each with
\* the tokens used once it was taken
RECURSIVE Select(_, _, _, _)
Select(msgs, k, selected, max_tokens) ==
    LET used == IF selected = <<>> THEN 0 ELSE selected[Len(selected)].used
    IN  IF k = 0 THEN selected
        ELSE IF used + Cost(msgs[k]) > max_tokens /\ selected # <<>> THEN selected
        ELSE Select(msgs, k - 1,
                    Append(selected, [msg |-> msgs[k], used |-> used + Cost(msgs[k])]),
                    max_tokens)

\* get_context_window(max_tokens)
get_context_window(msgs, max_tokens) ==
    IF msgs = <<>> THEN <<>>
    ELSE LET selected == Reverse(Select(msgs, Len(msgs), <<>>, max_tokens))
         IN  [k \in 1..Len(selected) |-> to_dict(selected[k].msg)]

\* the token budgets asked for
Budgets == {0, 4, 40, 400}

\* a caller asks for the context window
GetContextWindow(max_tokens) ==
    /\ reply' = [query |-> "get_context_window", arg |-> max_tokens,
                 result |-> get_context_window(messages, max_tokens)]
    /\ UNCHANGED <<max_history, messages, files, last, adds, now>>
    /\ DispatcherIdle
    /\ DeviceIdle

\* self._messages[-max_turns:]: the last max_turns messages, all of them
\* when there are fewer (max_turns > 0)
LastOf(msgs, max_turns) ==
    SubSeq(msgs, IF max_turns >= Len(msgs) THEN 1 ELSE Len(msgs) - max_turns + 1, Len(msgs))

\* get_history(max_turns), lines 122-123: the slice is taken only when
\* max_turns is truthy
get_history(msgs, max_turns) ==
    LET recent == IF max_turns # 0 THEN LastOf(msgs, max_turns) ELSE msgs
    IN  [k \in 1..Len(recent) |-> to_dict(recent[k])]

\* the max_turns asked for; 20 is the default
Turns == {0, 1, 2, 20}

\* a caller asks for the history
GetHistory(max_turns) ==
    /\ reply' = [query |-> "get_history", arg |-> max_turns,
                 result |-> get_history(messages, max_turns)]
    /\ UNCHANGED <<max_history, messages, files, last, adds, now>>
    /\ DispatcherIdle
    /\ DeviceIdle

MemoryNext ==
    \/ \E cap \in Caps : Fresh(cap)
    \/ AddMessage(RoleAt(now + 1), TextAt(now + 1))
    \/ Clear
    \/ Summarize
    \/ \E path \in Paths : Save(path)
    \/ \E path \in Paths : Load(path)

----------------------------------------------------------------------------
(* ADBManager                                                              *)

\* the serials the discovery command may report, in the order of its output
DiscoveryOrder == <<"A", "B">>
Serials == {"A", "B"}

\* the second column of "adb devices -l"; absent: the serial is not listed
Statuses == {"device", "unauthorized", "absent"}

\* the discovery command: runs, or the adb binary is missing
Channels == {"ok", "missing"}

\* the discovery command fails with an error that is neither "not found"
\* nor a timeout (the binary may not be executed, say): discovery raises
AnyChannel == Channels \cup {"broken"}
DiscoveryRaises(ch) == ch = "broken"

\* DeviceInfo(serial, is_online, is_authorized): both flags are status == "device"
DeviceInfo(serial, st) ==
    [serial |-> serial, is_online |-> st = "device", is_authorized |-> st = "device"]

\* the lines of the discovery output, one DeviceInfo for each listed serial
RECURSIVE Listing(_, _)
Listing(order, st) ==
    IF order = <<>> THEN <<>>
    ELSE (IF st[Head(order)] = "absent" THEN <<>>
          ELSE <<DeviceInfo(Head(order), st[Head(order)])>>)
         \o Listing(Tail(order), st)

\* list_devices(): an empty list when the command cannot be run
list_devices(st, ch) == IF ch = "ok" THEN Listing(DiscoveryOrder, st) ELSE <<>>

\* (variant: a serial that is listed counts as connected, whatever its status)
is_device_connected_listed(serial, st, ch) == ch = "ok" /\ st[serial] # "absent"

\* ADBBridge.is_device_connected() of a bridge that targets serial
is_device_connected(serial, st, ch) == ch = "ok" /\ st[serial] = "device"

\* (variant: every listed device is eligible)
AuthorizedAnyStatus(devices) == devices

\* [d for d in devices if d.is_authorized and d.is_online]
RECURSIVE Authorized(_)
Authorized(devices) ==
    IF devices = <<>> THEN <<>>
    ELSE (IF Head(devices).is_authorized /\ Head(devices).is_online
          THEN <<Head(devices)>> ELSE <<>>)
         \o Authorized(Tail(devices))

\* the serials of a list of devices
SerialsOf(devices) == { devices[k].serial : k \in 1..Len(devices) }

\* (variant: the first eligible device is taken, whatever was active)
PreferFirst(active, authorized) == authorized[1].serial

\* the device get_device settles on: the active serial when it is eligible,
\* else the first eligible device
Prefer(active, authorized) ==
    IF active # NONE /\ active \in SerialsOf(authorized)
    THEN active
    ELSE authorized[1].serial

\* what a call of the request thread handed back
NoResult == [kind |-> "none", serial |-> NONE, exc |-> NONE, available |-> <<>>]
Handle(serial) == [kind |-> "handle", serial |-> serial, exc |-> NONE, available |-> <<>>]
ReturnsNone == [kind |-> "returned", serial |-> NONE, exc |-> NONE, available |-> <<>>]
NoDeviceError == [kind |-> "raised", serial |-> NONE, exc |-> "NoDeviceError", available |-> <<>>]
\* (variant: the error does not say which serials are there)
SelectionErrorSilent(devices) ==
    [kind |-> "raised", serial |-> NONE, exc |-> "ValueError", available |-> <<>>]

SelectionError(devices) ==
    [kind |-> "raised", serial |-> NONE, exc |-> "ValueError",
     available |-> [k \in 1..Len(devices) |-> devices[k].serial]]
\* the error of the discovery command reaches the caller
DiscoveryError == [kind |-> "raised", serial |-> NONE, exc |-> "OSError", available |-> <<>>]

\* the request thread: the call in progress, where it stands, the discovery
\* it made, the device it settled on, and the session it found when called
NoCall ==
    [op |-> "none", pc |-> "idle", arg |-> NONE, devices |-> <<>>, discovered |-> FALSE,
     device |-> NONE, found |-> [active_serial |-> NONE, bridge |-> NONE],
     result |-> NoResult]

\* the reconnect threads a run may start, and those of a run that calls
\* auto_reconnect with the flag cleared only once
LoopIds == {1, 2}
OneLoop == {1}

\* a reconnect thread that was not started, and one about to test the
\* running flag
NoLoop ==
    [pc |-> "unstarted", current |-> {}, connected |-> {}, disconnected |-> {},
     failed |-> FALSE]
NewLoop ==
    [pc |-> "check", current |-> {}, connected |-> {}, disconnected |-> {},
     failed |-> FALSE]

\* self._reconnect_thread: the thread started last, 0 when none was
reconnect_thread ==
    IF \A t \in LoopIds : loops[t].pc = "unstarted" THEN 0
    ELSE CHOOSE t \in LoopIds :
             /\ loops[t].pc # "unstarted"
             /\ \A u \in LoopIds : loops[u].pc # "unstarted" => u <= t

\* Thread.is_alive()
is_alive(t) == t # 0 /\ loops[t].pc \notin {"unstarted", "exited"}

\* main() before a signal: the handler has not run
Serving == [pc |-> "serving", saved |-> "none"]

\* ADBManager(): no session, no thread; the devices are as attached tells
DeviceInitWith(attached) ==
    /\ adb_status \in attached
    /\ channel = "ok"
    /\ changes = 0
    /\ active_serial = NONE
    /\ bridge = NONE
    /\ validated = FALSE
    /\ caller = NoCall
    /\ reconnect_running = FALSE
    /\ last_known = {}
    /\ loops = [t \in LoopIds |-> NoLoop]
    /\ connect_callbacks = <<>>
    /\ disconnect_callbacks = <<>>
    /\ events = <<>>
    /\ shutdown = Serving
    /\ plan = NoPlan

\* a manager with no device attached
DeviceInit == DeviceInitWith({[s \in Serials |-> "absent"]})

\* the dispatcher, the memory, the shutdown handler and the planner are left
\* alone
DeviceOnly == UNCHANGED <<dispatcherVars, memoryVars, shutdown, plan>>

\* a device is plugged in, unplugged, authorized or has its authorization revoked
Plug(serial, st) ==
    /\ changes < MaxChanges
    /\ adb_status[serial] # st
    /\ adb_status' = [adb_status EXCEPT ![serial] = st]
    /\ changes' = changes + 1
    /\ UNCHANGED <<channel, active_serial, bridge, validated, caller, reconnect_running,
                   last_known, loops>>
    /\ UNCHANGED hookVars
    /\ DeviceOnly

\* the adb binary disappears or comes back
Channel(ch) ==
    /\ changes < MaxChanges
    /\ channel # ch
    /\ channel' = ch
    /\ changes' = changes + 1
    /\ UNCHANGED <<adb_status, active_serial, bridge, validated, caller, reconnect_running,
                   last_known, loops>>
    /\ UNCHANGED hookVars
    /\ DeviceOnly

\* a device drops off the bus or comes back, authorized
Flap(serial) ==
    /\ changes < MaxFlaps
    /\ adb_status' = [adb_status EXCEPT ![serial] = IF @ = "device" THEN "absent"
                                                    ELSE "device"]
    /\ changes' = changes + 1
    /\ UNCHANGED <<channel, active_serial, bridge, validated, caller, reconnect_running,
                   last_known, loops>>
    /\ UNCHANGED hookVars
    /\ DeviceOnly

\* the request thread is between two calls
Ready == caller.pc = "idle"

\* the request thread takes what its call handed back
Taken ==
    /\ caller.pc = "done"
    /\ caller' = NoCall
    /\ UNCHANGED <<adb_status, channel, changes, active_serial, bridge, validated,
                   reconnect_running, last_known, loops>>
    /\ UNCHANGED hookVars
    /\ DeviceOnly

\* get_device(), lines 110-116: the cached handle is returned when its device
\* still answers as connected
GetDevice ==
    /\ Ready
    /\ LET call == [NoCall EXCEPT !.op = "get_device",
                                  !.found = [active_serial |-> active_serial,
                                             bridge |-> bridge]]
       IN  IF bridge # NONE /\ active_serial # NONE /\ DiscoveryRaises(channel)
           THEN caller' = [call EXCEPT !.pc = "done", !.result = DiscoveryError]
           ELSE IF bridge # NONE /\ active_serial # NONE
                   /\ is_device_connected(active_serial, adb_status, channel)
           THEN caller' = [call EXCEPT !.pc = "done", !.result = Handle(active_serial)]
           ELSE caller' = [call EXCEPT !.pc = "discover"]
    /\ UNCHANGED <<adb_status, channel, changes, active_serial, bridge, validated,
                   reconnect_running, last_known, loops>>
    /\ UNCHANGED hookVars
    /\ DeviceOnly

\* get_device(), lines 119-135: discovery and choice of the device
GetDeviceDiscover ==
    /\ caller.op = "get_device"
    /\ caller.pc = "discover"
    /\ LET devices == list_devices(adb_status, channel)
           authorized == Authorized(devices)
           seen == [caller EXCEPT !.devices = devices, !.discovered = TRUE]
       IN  IF DiscoveryRaises(channel)
           THEN caller' = [caller EXCEPT !.pc = "done", !.result = DiscoveryError]
           ELSE IF authorized = <<>>
           THEN caller' = [seen EXCEPT !.pc = "done", !.result = NoDeviceError]
           ELSE caller' = [seen EXCEPT !.pc = "bind_serial",
                                       !.device = Prefer(active_serial, authorized)]
    /\ UNCHANGED <<adb_status, channel, changes, active_serial, bridge, validated,
                   reconnect_running, last_known, loops>>
    /\ UNCHANGED hookVars
    /\ DeviceOnly

\* select_device(serial), lines 209-216: discovery and lookup of the serial
SelectDevice(serial) ==
    /\ Ready
    /\ LET devices == list_devices(adb_status, channel)
           call == [NoCall EXCEPT !.op = "select_device", !.arg = serial,
                                  !.devices = devices, !.discovered = TRUE,
                                  !.found = [active_serial |-> active_serial,
                                             bridge |-> bridge]]
       IN  IF DiscoveryRaises(channel)
           THEN caller' = [call EXCEPT !.pc = "done", !.result = DiscoveryError,
                                       !.devices = <<>>, !.discovered = FALSE]
           ELSE IF serial \notin SerialsOf(devices)
           THEN caller' = [call EXCEPT !.pc = "done", !.result = SelectionError(devices)]
           ELSE caller' = [call EXCEPT !.pc = "bind_serial", !.device = serial]
    /\ UNCHANGED <<adb_status, channel, changes, active_serial, bridge, validated,
                   reconnect_running, last_known, loops>>
    /\ UNCHANGED hookVars
    /\ DeviceOnly

\* self._active_serial = ...: line 137 of get_device, line 218 of select_device
BindSerial ==
    /\ caller.pc = "bind_serial"
    /\ active_serial' = caller.device
    /\ caller' = [caller EXCEPT !.pc = "bind_bridge"]
    /\ UNCHANGED <<adb_status, channel, changes, bridge, validated, reconnect_running,
                   last_known, loops>>
    /\ UNCHANGED hookVars
    /\ DeviceOnly

\* (variant: the handle is made for the first device of the discovery)
BindBridgeFirstListed ==
    /\ caller.pc = "bind_bridge"
    /\ bridge' = caller.devices[1].serial
    /\ validated' = (caller.device \in SerialsOf(Authorized(caller.devices)))
    /\ caller' = IF caller.op = "get_device"
                 THEN [caller EXCEPT !.pc = "return"]
                 ELSE [caller EXCEPT !.pc = "done", !.result = ReturnsNone]
    /\ UNCHANGED <<adb_status, channel, changes, active_serial, reconnect_running,
                   last_known, loops>>
    /\ UNCHANGED hookVars
    /\ DeviceOnly

\* self._bridge = ADBBridge(...): lines 138-141 of get_device, which has
\* yet to read the attribute back, and line 219 of select_device, which ends
BindBridge ==
    /\ caller.pc = "bind_bridge"
    /\ bridge' = caller.device
    /\ validated' = (caller.device \in SerialsOf(Authorized(caller.devices)))
    /\ caller' = IF caller.op = "get_device"
                 THEN [caller EXCEPT !.pc = "return"]
                 ELSE [caller EXCEPT !.pc = "done", !.result = ReturnsNone]
    /\ UNCHANGED <<adb_status, channel, changes, active_serial, reconnect_running,
                   last_known, loops>>
    /\ UNCHANGED hookVars
    /\ DeviceOnly

\* (variant: get_device returns the handle it has just made)
ReadBackLocal(handle, made) == Handle(made)

\* return self._bridge, line 143: the attribute is read again, and holds
\* None when the reconnect thread has cleared it since line 138
ReadBack(handle, made) == IF handle = NONE THEN ReturnsNone ELSE Handle(handle)

\* get_device(), lines 142-143: the handle is logged and returned
GetDeviceReturn ==
    /\ caller.op = "get_device"
    /\ caller.pc = "return"
    /\ caller' = [caller EXCEPT !.pc = "done", !.result = ReadBack(bridge, caller.device)]
    /\ UNCHANGED <<adb_status, channel, changes, active_serial, bridge, validated,
                   reconnect_running, last_known, loops>>
    /\ UNCHANGED hookVars
    /\ DeviceOnly

\* auto_reconnect(): starts a thread, the next of those at hand, unless the
\* flag says one is running
AutoReconnect(threads) ==
    /\ \E t \in threads :
          /\ loops[t] = NoLoop
          /\ \A u \in threads : u < t => loops[u] # NoLoop
          /\ IF reconnect_running
             THEN UNCHANGED <<reconnect_running, loops>>
             ELSE /\ reconnect_running' = TRUE
                  /\ loops' = [loops EXCEPT ![t] = NewLoop]
    /\ UNCHANGED <<adb_status, channel, changes, active_serial, bridge, validated, caller,
                   last_known>>
    /\ UNCHANGED hookVars
    /\ DeviceOnly

\* on_connect(callback), on_disconnect(callback): the callback joins the
\* list; callbacks are told apart by their place in it
OnConnect ==
    /\ Len(connect_callbacks) < MaxCallbacks
    /\ connect_callbacks' = Append(connect_callbacks, Len(connect_callbacks) + 1)
    /\ UNCHANGED <<adb_status, channel, changes, active_serial, bridge, validated, caller,
                   reconnect_running, last_known, loops, disconnect_callbacks, events>>
    /\ DeviceOnly

OnDisconnect ==
    /\ Len(disconnect_callbacks) < MaxCallbacks
    /\ disconnect_callbacks' = Append(disconnect_callbacks, Len(disconnect_callbacks) + 1)
    /\ UNCHANGED <<adb_status, channel, changes, active_serial, bridge, validated, caller,
                   reconnect_running, last_known, loops, connect_callbacks, events>>
    /\ DeviceOnly

\* stop_auto_reconnect(), lines 252-253: clears the flag, and waits for the
\* thread when it is alive
StopAutoReconnect ==
    /\ Ready
    /\ reconnect_running
    /\ reconnect_running' = FALSE
    /\ caller' = IF is_alive(reconnect_thread)
                 THEN [NoCall EXCEPT !.op = "stop_auto_reconnect", !.pc = "join"]
                 ELSE [NoCall EXCEPT !.op = "stop_auto_reconnect", !.pc = "done",
                                     !.result = ReturnsNone]
    /\ UNCHANGED <<adb_status, channel, changes, active_serial, bridge, validated,
                   last_known, loops>>
    /\ UNCHANGED hookVars
    /\ DeviceOnly

\* stop_auto_reconnect(), lines 254-255: join(timeout=10) comes back when the
\* thread has ended or when the ten seconds are over, whichever is first
StopJoin ==
    /\ caller.op = "stop_auto_reconnect"
    /\ caller.pc = "join"
    /\ caller' = [caller EXCEPT !.pc = "done", !.result = ReturnsNone]
    /\ UNCHANGED <<adb_status, channel, changes, active_serial, bridge, validated,
                   reconnect_running, last_known, loops>>
    /\ UNCHANGED hookVars
    /\ DeviceOnly

\* (variant: the thread does not look at the flag)
ObservesNever(running) == "poll"

\* line 260, while self._reconnect_running: another poll, or the end
Observes(running) == IF running THEN "poll" ELSE "exited"

\* _reconnect_loop, line 260: the thread tests the flag
LoopCheck(t) ==
    /\ loops[t].pc = "check"
    /\ loops' = [loops EXCEPT ![t].pc = Observes(reconnect_running)]
    /\ UNCHANGED <<adb_status, channel, changes, active_serial, bridge, validated, caller,
                   reconnect_running, last_known>>
    /\ UNCHANGED hookVars
    /\ DeviceOnly

\* (variant: every online serial counts as newly connected)
DiffAll(current, known) ==
    [connected |-> current, disconnected |-> known \ current]

\* lines 267 and 278: the serials that came and the serials that went
Diff(current, known) ==
    [connected |-> current \ known, disconnected |-> known \ current]

\* (variant: an error inside a poll ends the thread)
PollFailedFatal == "exited"

\* lines 294-295: an error inside a poll is caught in the loop
PollFailed == "caught"

\* the thread after an error inside a poll
Caught == [NewLoop EXCEPT !.pc = PollFailed]

\* _reconnect_loop, lines 262-264: discovery, and the difference with the
\* serials known to be online; an error of the discovery ends the poll
LoopPoll(t) ==
    /\ loops[t].pc = "poll"
    /\ LET devices == list_devices(adb_status, channel)
           current_serials == { devices[k].serial : k \in { k \in 1..Len(devices) :
                                                               devices[k].is_online } }
           diff == Diff(current_serials, last_known)
       IN  loops' = IF DiscoveryRaises(channel)
                    THEN [loops EXCEPT ![t] = Caught]
                    ELSE [loops EXCEPT ![t] = [pc |-> "events",
                                               current |-> current_serials,
                                               connected |-> diff.connected,
                                               disconnected |-> diff.disconnected,
                                               failed |-> FALSE]]
    /\ events' = <<>>
    /\ UNCHANGED <<adb_status, channel, changes, active_serial, bridge, validated, caller,
                   reconnect_running, last_known, connect_callbacks, disconnect_callbacks>>
    /\ DeviceOnly

\* the least of a non-empty set of numbers
Least(S) == CHOOSE n \in S : \A m \in S : n <= m

\* (variant: the call of a callback is not guarded, so the first one that
\* raises ends the poll)
InvokeUnguarded(callbacks, raising) ==
    IF raising = {}
    THEN [invoked |-> Len(callbacks), uncaught |-> FALSE]
    ELSE [invoked |-> Least(raising), uncaught |-> TRUE]

\* lines 271-275 and 281-285: every callback of the list is called in turn,
\* each inside its own try/except; raising: the places of those that raise
Invoke(callbacks, raising) == [invoked |-> Len(callbacks), uncaught |-> FALSE]

\* one event as the callbacks saw it: how many of them were called, and
\* whether one of them raised
Event(kind, serial, invoked, raised) ==
    [kind |-> kind, serial |-> serial, invoked |-> invoked, raised |-> raised]

\* (variant: the cached handle outlives the disconnect of its device)
InvalidateNever(serial, active, handle) == handle

\* lines 288-289: the cached handle is dropped when the serial is the active one
Invalidate(serial, active, handle) == IF serial = active THEN NONE ELSE handle

\* _reconnect_loop, lines 267-275: the connect callbacks are told of a serial
LoopConnect(t, serial) ==
    /\ loops[t].pc = "events"
    /\ serial \in loops[t].connected
    /\ \E raising \in SUBSET (1..Len(connect_callbacks)) :
          LET did == Invoke(connect_callbacks, raising)
          IN  /\ events' = Append(events, Event("connect", serial, did.invoked,
                                                raising # {}))
              /\ loops' = IF did.uncaught
                          THEN [loops EXCEPT ![t] = Caught]
                          ELSE [loops EXCEPT ![t].connected = @ \ {serial}]
    /\ UNCHANGED <<adb_status, channel, changes, active_serial, bridge, validated, caller,
                   reconnect_running, last_known, connect_callbacks, disconnect_callbacks>>
    /\ DeviceOnly

\* _reconnect_loop, lines 278-290: the disconnect callbacks are told of a
\* serial, and the cached handle is dropped when the serial is the active one
LoopDisconnect(t, serial) ==
    /\ loops[t].pc = "events"
    /\ loops[t].connected = {}
    /\ serial \in loops[t].disconnected
    /\ \E raising \in SUBSET (1..Len(disconnect_callbacks)) :
          LET did == Invoke(disconnect_callbacks, raising)
          IN  /\ events' = Append(events, Event("disconnect", serial, did.invoked,
                                                raising # {}))
              /\ loops' = IF did.uncaught
                          THEN [loops EXCEPT ![t] = Caught]
                          ELSE [loops EXCEPT ![t].disconnected = @ \ {serial}]
              /\ bridge' = IF did.uncaught THEN bridge
                           ELSE Invalidate(serial, active_serial, bridge)
    /\ UNCHANGED <<adb_status, channel, changes, active_serial, validated, caller,
                   reconnect_running, last_known, connect_callbacks, disconnect_callbacks>>
    /\ DeviceOnly

\* _reconnect_loop, lines 292-297: the online serials are remembered and the
\* thread sleeps for the interval, then tests the flag again
LoopSleep(t) ==
    /\ loops[t].pc = "events"
    /\ loops[t].connected = {}
    /\ loops[t].disconnected = {}
    /\ last_known' = loops[t].current
    /\ loops' = [loops EXCEPT ![t] = NewLoop]
    /\ UNCHANGED <<adb_status, channel, changes, active_serial, bridge, validated, caller,
                   reconnect_running>>
    /\ UNCHANGED hookVars
    /\ DeviceOnly

\* _reconnect_loop, lines 294-297: the error is logged, the serials known to
\* be online stay as they were, and the thread sleeps for the interval
LoopCaught(t) ==
    /\ loops[t].pc = "caught"
    /\ loops' = [loops EXCEPT ![t] = [NewLoop EXCEPT !.failed = TRUE]]
    /\ UNCHANGED <<adb_status, channel, changes, active_serial, bridge, validated, caller,
                   reconnect_running, last_known>>
    /\ UNCHANGED hookVars
    /\ DeviceOnly

\* the fields _enrich_device_info fills in, and their default in DeviceInfo
PropKeys == {"model", "manufacturer", "android_version", "sdk_version"}
UNKNOWN == "unknown"

\* how the queries of one device go: the getprops of some keys fail with
\* ADBError, or get_device_info fails as a whole with another error
Probes ==
    { [raises |-> FALSE, failing |-> F] : F \in SUBSET PropKeys }
        \cup { [raises |-> TRUE, failing |-> {}] }

\* the answer of a device to the getprop of a key
PropOf(key) == "ro." \o key

\* ADBBridge.get_device_info(): a getprop that fails with ADBError reads "unknown"
get_device_info(probe) ==
    [key \in PropKeys |-> IF key \notin probe.failing THEN PropOf(key) ELSE UNKNOWN]

\* the DeviceInfo of list_devices with all its fields
FullInfo(serial, st) ==
    [serial |-> serial, is_online |-> st = "device", is_authorized |-> st = "device",
     model |-> UNKNOWN, manufacturer |-> UNKNOWN, android_version |-> UNKNOWN,
     sdk_version |-> UNKNOWN]

\* _enrich_device_info(info): the four fields are set from the answers, or
\* all left as they are when the queries fail as a whole
enrich_device_info(info, probe) ==
    IF probe.raises THEN info
    ELSE LET props == get_device_info(probe)
         IN  [info EXCEPT !.model = props["model"],
                          !.manufacturer = props["manufacturer"],
                          !.android_version = props["android_version"],
                          !.sdk_version = props["sdk_version"]]

\* (variant: only the online devices are listed)
RECURSIVE FullListingOnline(_, _, _)
FullListingOnline(order, st, probes) ==
    IF order = <<>> THEN <<>>
    ELSE (IF st[Head(order)] # "device" THEN <<>>
          ELSE <<enrich_device_info(FullInfo(Head(order), st[Head(order)]),
                                    probes[Head(order)])>>)
         \o FullListingOnline(Tail(order), st, probes)

\* list_devices(), lines 166-197: one DeviceInfo for each line of the
\* discovery output, enriched when the device is online
RECURSIVE FullListing(_, _, _)
FullListing(order, st, probes) ==
    IF order = <<>> THEN <<>>
    ELSE (IF st[Head(order)] = "absent" THEN <<>>
          ELSE IF st[Head(order)] = "device"
          THEN <<enrich_device_info(FullInfo(Head(order), st[Head(order)]),
                                    probes[Head(order)])>>
          ELSE <<FullInfo(Head(order), st[Head(order)])>>)
         \o FullListing(Tail(order), st, probes)

\* list_devices() handed back a list
ReturnsDevices == [kind |-> "devices", serial |-> NONE, exc |-> NONE, available |-> <<>>]

\* list_devices() called by the request thread; probes: how the queries of
\* each device go
ListDevices(probes) ==
    /\ Ready
    /\ LET call == [NoCall EXCEPT !.op = "list_devices", !.arg = probes, !.pc = "done"]
       IN  caller' = IF DiscoveryRaises(channel)
                     THEN [call EXCEPT !.result = DiscoveryError]
                     ELSE IF channel # "ok"
                     THEN [call EXCEPT !.result = ReturnsDevices, !.discovered = TRUE]
                     ELSE [call EXCEPT !.result = ReturnsDevices, !.discovered = TRUE,
                                       !.devices = FullListing(DiscoveryOrder, adb_status,
                                                               probes)]
    /\ UNCHANGED <<adb_status, channel, changes, active_serial, bridge, validated,
                   reconnect_running, last_known, loops>>
    /\ UNCHANGED hookVars
    /\ DeviceOnly

DeviceNext ==
    \/ \E serial \in Serials, st \in Statuses : Plug(serial, st)
    \/ \E ch \in Channels : Channel(ch)
    \/ GetDevice
    \/ GetDeviceDiscover
    \/ \E serial \in Serials : SelectDevice(serial)
    \/ BindSerial
    \/ BindBridge
    \/ GetDeviceReturn
    \/ Taken
    \/ AutoReconnect(OneLoop)
    \/ StopAutoReconnect
    \/ StopJoin
    \/ \E t \in OneLoop : LoopCheck(t)
    \/ \E t \in OneLoop : LoopPoll(t)
    \/ \E t \in OneLoop, serial \in Serials : LoopConnect(t, serial)
    \/ \E t \in OneLoop, serial \in Serials : LoopDisconnect(t, serial)
    \/ \E t \in OneLoop : LoopSleep(t)

----------------------------------------------------------------------------
(* main(): the shutdown handler, main_agent.py lines 229-244               *)
(* The handler is the one main() installs for SIGINT and SIGTERM; it runs  *)
(* on the main thread, which does nothing else until the handler is        *)
(* through, while the reconnect thread runs on.                            *)

\* the main thread serves; the process is there
Serves == shutdown.pc = "serving"
Alive == shutdown.pc # "exited"

\* (variant: an error of save leaves the handler at once)
AfterSaveUncaught(ok) == IF ok THEN "stopping" ELSE "exiting"

\* lines 231-236: save is called inside try/except Exception, so the handler
\* goes on to stop the reconnect thread however save ended
AfterSave(ok) == "stopping"

\* the signal arrives: whatever call the main thread was in is abandoned
Signal ==
    /\ Serves
    /\ shutdown' = [shutdown EXCEPT !.pc = "saving"]
    /\ caller' = NoCall
    /\ UNCHANGED <<adb_status, channel, changes, active_serial, bridge, validated,
                   reconnect_running, last_known, loops>>
    /\ UNCHANGED hookVars
    /\ UNCHANGED <<dispatcherVars, memoryVars, plan>>

\* lines 231-236: session_memory.save(memory_path) writes the file, or
\* raises (the directory or the file cannot be written) and leaves it
ShutdownSave(path) ==
    /\ shutdown.pc = "saving"
    /\ \E ok \in BOOLEAN :
          /\ shutdown' = [pc |-> AfterSave(ok), saved |-> IF ok THEN "ok" ELSE "failed"]
          /\ files' = IF ok THEN [files EXCEPT ![path] = Saved(path)] ELSE files
          /\ last' = IF ok THEN Quiet ELSE Outcome("save", "OSError", NoText)
    /\ reply' = NoReply
    /\ UNCHANGED <<max_history, messages, adds>>
    /\ UNCHANGED <<dispatcherVars, deviceVars, plan>>

\* lines 238-239: adb_manager.stop_auto_reconnect() clears the flag and
\* waits for the thread when it is alive
ShutdownStop ==
    /\ shutdown.pc = "stopping"
    /\ reconnect_running' = FALSE
    /\ shutdown' = [shutdown EXCEPT !.pc = IF is_alive(reconnect_thread)
                                           THEN "joining" ELSE "exiting"]
    /\ UNCHANGED <<adb_status, channel, changes, active_serial, bridge, validated, caller,
                   last_known, loops>>
    /\ UNCHANGED hookVars
    /\ UNCHANGED <<dispatcherVars, memoryVars, plan>>

\* join(timeout=10) comes back: the thread has ended, or ten seconds are over
ShutdownJoin ==
    /\ shutdown.pc = "joining"
    /\ shutdown' = [shutdown EXCEPT !.pc = "exiting"]
    /\ UNCHANGED <<dispatcherVars, memoryVars, deviceVars, plan>>

\* lines 241-242: sys.exit(0); the daemon thread ends with the process
ShutdownExit ==
    /\ shutdown.pc = "exiting"
    /\ shutdown' = [shutdown EXCEPT !.pc = "exited"]
    /\ UNCHANGED <<dispatcherVars, memoryVars, deviceVars, plan>>

\* the runtime until it has exited: the memory takes messages and the
\* reconnect thread is started while the main thread serves, the reconnect
\* thread polls as long as the process is there
ShutdownNext ==
    \/ Serves /\ AddMessage(RoleAt(now + 1), TextAt(now + 1))
    \/ Serves /\ AutoReconnect(OneLoop)
    \/ Alive /\ \E t \in OneLoop : LoopCheck(t)
    \/ Alive /\ \E t \in OneLoop : LoopPoll(t)
    \/ Alive /\ \E t \in OneLoop : LoopSleep(t)
    \/ Signal
    \/ \E path \in Paths : ShutdownSave(path)
    \/ ShutdownStop
    \/ ShutdownJoin
    \/ ShutdownExit

----------------------------------------------------------------------------
(* Specifications                                                          *)

\* the dispatcher, next to a memory that nobody uses
Init ==
    /\ DispatcherInit
    /\ MemoryInit /\ max_history = MaxCap /\ files = [p \in Paths |-> NoFile]
    /\ DeviceInit

Next == DispatcherNext

Spec == Init /\ [][Next]_vars

\* the dispatcher, called one tool call at a time and watched through
\* get_call_stats
StatsNext ==
    \/ \E tc \in ToolCalls : Execute(tc)
    \/ \E i \in 1..Len(tasks), value \in ReturnValues : ToolReturns(i, value)
    \/ \E i \in 1..Len(tasks), exc \in Exceptions : ToolRaises(i, exc)
    \/ Discard
    \/ \E d \in {WINDOW_SECS, WINDOW_SECS + 1} : Tick(d)
    \/ GetCallStats
    \/ StatsTaken

SpecStats == Init /\ [][StatsNext]_vars

\* single calls of execute whose tool, once invoked, always raises
FailingNext ==
    \/ \E tc \in ToolCalls : Execute(tc)
    \/ \E i \in 1..Len(tasks), exc \in Exceptions : ToolRaises(i, exc)
    \/ Discard
    \/ \E d \in {WINDOW_SECS, WINDOW_SECS + 1} : Tick(d)

SpecFailing == Init /\ [][FailingNext]_vars

\* the conversation memory, next to an idle dispatcher
InitMemory == DispatcherInit /\ MemoryInit /\ DeviceInit

SpecMemory == InitMemory /\ [][MemoryNext]_vars

\* the memory filled, emptied and asked for its history
HistoryNext ==
    \/ \E cap \in Caps : Fresh(cap)
    \/ AddMessage(RoleAt(now + 1), TextAt(now + 1))
    \/ Clear
    \/ \E max_turns \in Turns : GetHistory(max_turns)

SpecHistory == InitMemory /\ [][HistoryNext]_vars

\* the conversation memory and its queries, without saving, possibly next to
\* the file of a long session
QueriesNext ==
    \/ AddMessage(RoleAt(now + 1), TextAt(now + 1))
    \/ Clear
    \/ Summarize
    \/ \E path \in Paths : Load(path)
    \/ \E max_tokens \in Budgets : GetContextWindow(max_tokens)

InitQueries ==
    DispatcherInit /\ MemoryInitWith({NoFile, LongFile} \cup ForeignFiles) /\ DeviceInit

SpecQueries == InitQueries /\ [][QueriesNext]_vars

\* the device manager, next to an idle dispatcher and an unused memory
InitDevice ==
    /\ DispatcherInit
    /\ MemoryInit /\ max_history = MaxCap /\ files = [p \in Paths |-> NoFile]
    /\ DeviceInitWith([Serials -> Statuses])

SpecDevice == InitDevice /\ [][DeviceNext]_vars

\* the reconnect thread and its callbacks, next to get_device, with a
\* discovery command that may fail
LoopStep(t) ==
    \/ LoopCheck(t)
    \/ LoopPoll(t)
    \/ \E serial \in Serials : LoopConnect(t, serial)
    \/ \E serial \in Serials : LoopDisconnect(t, serial)
    \/ LoopSleep(t)
    \/ LoopCaught(t)

\* what the reconnect thread tells apart: a serial is online or it is not
Presence == {"device", "absent"}

LoopNext ==
    \/ \E serial \in Serials, st \in Presence : Plug(serial, st)
    \/ \E ch \in AnyChannel : Channel(ch)
    \/ GetDevice
    \/ GetDeviceDiscover
    \/ BindSerial
    \/ BindBridge
    \/ GetDeviceReturn
    \/ Taken
    \/ OnConnect
    \/ OnDisconnect
    \/ AutoReconnect(OneLoop)
    \/ StopAutoReconnect
    \/ StopJoin
    \/ \E t \in OneLoop : LoopStep(t)

InitLoop ==
    /\ DispatcherInit
    /\ MemoryInit /\ max_history = MaxCap /\ files = [p \in Paths |-> NoFile]
    /\ DeviceInit

SpecLoop == InitLoop /\ [][LoopNext]_vars

\* the runtime from its start to its exit
InitShutdown == DispatcherInit /\ MemoryInitWith({NoFile}) /\ DeviceInit

SpecShutdown == InitShutdown /\ [][ShutdownNext]_vars

\* auto_reconnect and stop_auto_reconnect called one after the other by the
\* request thread, again and again: a second thread may be started while
\* the first is still alive
RestartNext ==
    \/ \E serial \in Serials, st \in Presence : Plug(serial, st)
    \/ \E ch \in AnyChannel : Channel(ch)
    \/ Ready /\ AutoReconnect(LoopIds)
    \/ StopAutoReconnect
    \/ StopJoin
    \/ Taken
    \/ \E t \in LoopIds : LoopStep(t)

SpecRestart == InitLoop /\ [][RestartNext]_vars

\* the device that was active when get_device was called keeps its status
\* until the call has handed back its result
Steady(serial) == caller.op = "get_device" => serial # caller.found.active_serial

\* one session watched through many changes: get_device and the reconnect
\* thread, with a discovery command that runs, devices that come and go, and
\* no select_device
StickyNext ==
    \/ \E serial \in Serials : Steady(serial) /\ Flap(serial)
    \/ GetDevice
    \/ GetDeviceDiscover
    \/ BindSerial
    \/ BindBridge
    \/ GetDeviceReturn
    \/ Taken
    \/ AutoReconnect(OneLoop)
    \/ \E t \in OneLoop : LoopCheck(t)
    \/ \E t \in OneLoop : LoopPoll(t)
    \/ \E t \in OneLoop, serial \in Serials : LoopConnect(t, serial)
    \/ \E t \in OneLoop, serial \in Serials : LoopDisconnect(t, serial)
    \/ \E t \in OneLoop : LoopSleep(t)

SpecSticky == InitDevice /\ [][StickyNext]_vars

\* list_devices alone, with devices of every status and queries that fail
ListingNext ==
    \/ \E serial \in Serials, st \in Statuses : Plug(serial, st)
    \/ \E ch \in AnyChannel : Channel(ch)
    \/ \E probes \in [Serials -> Probes] : ListDevices(probes)
    \/ Taken

SpecListing == InitDevice /\ [][ListingNext]_vars

\* the reconnect thread, started and stopped, with no callback registered
\* and no device requested
PollingNext ==
    \/ \E serial \in Serials, st \in Presence : Plug(serial, st)
    \/ \E ch \in AnyChannel : Channel(ch)
    \/ AutoReconnect(OneLoop)
    \/ StopAutoReconnect
    \/ StopJoin
    \/ Taken
    \/ \E t \in OneLoop : LoopStep(t)

\* a reconnect thread that is scheduled again and again and a join that
\* comes back: the thread is a daemon thread of the interpreter, its sleep
\* and the discovery command (timeout=10) are bounded, and so is
\* join(timeout=10)
LoopFairness ==
    /\ WF_vars(\E t \in OneLoop : LoopStep(t))
    /\ WF_vars(StopJoin)

SpecLoopFair == InitLoop /\ [][PollingNext]_vars /\ LoopFairness

----------------------------------------------------------------------------
(* Properties of the dispatcher                                            *)

\* the coroutines whose first step has run
StartedTasks == { i \in 1..Len(tasks) : tasks[i].pc # "pending" }

\* the call id a ToolResult must carry for a call
IdOf(tc) == IF tc.call_id = ABSENT THEN "" ELSE tc.call_id

\* the call names a registered tool
Registered(tc) == tc.name \in DOMAIN Registry

\* the arguments of the call are a mapping, possibly empty or left out
MappingArguments(tc) == tc.arguments.kind \in {"dict", "absent"}

\* a required field of the call's tool is absent from the arguments, or null
MissesRequired(tc) ==
    /\ Registered(tc)
    /\ \E f \in Registry[tc.name] :
           tc.arguments.kind # "dict" \/ tc.arguments.d[f] \in {ABSENT, NONE}

\* a call of a registered tool with every required field given
ValidCall(tc) == Registered(tc) /\ MappingArguments(tc) /\ ~MissesRequired(tc)

\* C1: execute returns exactly one ToolResult for every tool call (mapping or
\* object, known or unknown name, any arguments, any call id, whatever the
\* tool does) and never raises to its caller
C1_ExecuteNeverRaises ==
    /\ \A i \in 1..Len(tasks) : tasks[i].pc = "done" => tasks[i].outcome.kind = "ToolResult"
    /\ (op = "execute" /\ ret # NoReturn) =>
           /\ ret.kind = "returned"
           /\ Len(ret.results) = 1
           /\ ret.results[1].kind = "ToolResult"

\* C2: at every moment, also while the calls of a batch to the same tool are
\* interleaved, the timestamps of one tool inside the trailing 60 seconds
\* number at most the configured limit
C2_WindowWithinLimit ==
    \A k \in LogKeys : Cardinality(InWindow(call_log[k], now)) <= RateLimit

\* a batch with two calls to one tool: the first is admitted and its tool
\* still runs, the window is full, the second has been turned down
C2_Witness ==
    /\ op = "batch"
    /\ \E i, j \in StartedTasks :
           /\ i # j
           /\ tasks[i].call.name = tasks[j].call.name
           /\ tasks[i].pc = "running"
           /\ tasks[j].outcome.error = ErrRateLimit(tasks[j].call.name, RateLimit)
           /\ Cardinality(InWindow(call_log[tasks[i].call.name], now)) = RateLimit

\* C3: execute_batch returns as many results as it was given calls, the i-th
\* answering the i-th call (tool name, call id), whether or not calls fail;
\* an empty list gives an empty list
C3_BatchAnswersEveryCall ==
    (op = "batch" /\ ret # NoReturn) =>
        /\ ret.kind = "returned"
        /\ Len(ret.results) = Len(tasks)
        /\ \A i \in 1..Len(tasks) :
               /\ ret.results[i].kind = "ToolResult"
               /\ ret.results[i].tool_name = tasks[i].call.name
               /\ ret.results[i].call_id = IdOf(tasks[i].call)

\* a call of the batch failed in one of the ways the dispatcher reports
FailedInBatch(i) ==
    /\ tasks[i].pc = "done"
    /\ tasks[i].outcome.kind = "ToolResult"
    /\ tasks[i].outcome.error # NoError

\* C4: in a batch, a call that fails (validation, rate limit, unknown tool,
\* raising tool) neither cancels a call to another tool nor changes its
\* outcome: that call is admitted as its own window allows, and when its tool
\* returns a value its ToolResult carries that value and no error
C4_FailureLeavesOthersAlone ==
    op = "batch" =>
        \A i, j \in StartedTasks :
            (/\ i # j
             /\ FailedInBatch(i)
             /\ ValidCall(tasks[j].call)
             /\ tasks[j].outcome.kind # "raised"
             /\ tasks[j].call.name # tasks[i].call.name
             /\ tasks[j].seen < RateLimit) =>
                /\ tasks[j].invoked
                /\ tasks[j].pc = "done" => tasks[j].did # NotRun
                /\ tasks[j].did.kind = "returned" =>
                       /\ tasks[j].outcome =
                              ToolResult(tasks[j].call.name, tasks[j].did.val, NoError,
                                         IdOf(tasks[j].call))
                       /\ ret.kind = "returned" => ret.results[j] = tasks[j].outcome

\* a returned batch in which one call was turned down by the rate limit and a
\* call to another tool succeeded
C4_Witness ==
    /\ op = "batch"
    /\ ret.kind = "returned"
    /\ \E i, j \in StartedTasks :
           /\ tasks[i].outcome.error = ErrRateLimit(tasks[i].call.name, RateLimit)
           /\ tasks[j].call.name # tasks[i].call.name
           /\ tasks[j].did.kind = "returned"
           /\ succeeded(ret.results[j])

\* C5: a call of a registered tool that leaves out a required field, or gives
\* it as null, returns the error "Invalid arguments for tool '<name>'" with
\* no result, and the tool is not invoked
C5_MissingRequiredRejected ==
    \A i \in StartedTasks :
        MissesRequired(tasks[i].call) =>
            /\ tasks[i].outcome =
                   ToolResult(tasks[i].call.name, NONE, ErrInvalid(tasks[i].call.name),
                              IdOf(tasks[i].call))
            /\ ~tasks[i].invoked

\* C6: with N invocations of a tool inside the trailing 60 seconds the next
\* valid call is turned down with "Rate limit exceeded ..." and the tool is
\* not invoked; with fewer (the older ones having left the window) a valid
\* call is admitted and invoked
C6_RateLimitAtN ==
    \A i \in StartedTasks :
        ValidCall(tasks[i].call) =>
            IF tasks[i].seen >= RateLimit
            THEN /\ tasks[i].outcome =
                        ToolResult(tasks[i].call.name, NONE,
                                   ErrRateLimit(tasks[i].call.name, RateLimit),
                                   IdOf(tasks[i].call))
                 /\ ~tasks[i].invoked
            ELSE tasks[i].invoked

\* b is a with some of its oldest timestamps dropped
EvictedFrom(a, b) == \E n \in 0..Len(b) : a = SubSeq(b, n + 1, Len(b))

\* the coroutines whose tool is invoked by the step
NewlyInvoked ==
    { i \in 1..Len(tasks') :
        tasks'[i].invoked /\ (i > Len(tasks) \/ ~tasks[i].invoked) }

\* C7: a timestamp enters a tool's window only in a step that invokes that
\* tool; a call turned down by validation, by the rate limit or for an
\* unknown name adds none, to no window
C7_OnlyInvocationRecords ==
    [][ \A k \in LogKeys :
          IF \E i \in NewlyInvoked : tasks'[i].outcome.tool_name = k
          THEN /\ Cardinality(NewlyInvoked) = 1
               /\ call_log'[k] # <<>>
               /\ call_log'[k][Len(call_log'[k])] = now
               /\ EvictedFrom(SubSeq(call_log'[k], 1, Len(call_log'[k]) - 1), call_log[k])
          ELSE EvictedFrom(call_log'[k], call_log[k]) ]_vars

\* a call turned down by the rate limit, with the window of its tool holding
\* the N timestamps of the invocations before it and nothing else
C7_Witness ==
    \E i \in StartedTasks :
        /\ tasks[i].outcome.error = ErrRateLimit(tasks[i].call.name, RateLimit)
        /\ ~tasks[i].invoked
        /\ Len(call_log[tasks[i].call.name]) = RateLimit
        /\ now = MaxTime

\* C8: when the invoked tool raises, execute returns a ToolResult without
\* result whose error is "Bad arguments for <name>: <message>" when the tool
\* turned the arguments down at its boundary, and "<class>: <message>" for
\* every other exception raised inside the tool
C8_ErrorPrefixTellsBoundaryFromInternal ==
    \A i \in StartedTasks :
        tasks[i].did.kind = "raised" =>
            tasks[i].outcome =
                ToolResult(tasks[i].call.name, NONE,
                           IF tasks[i].did.exc.boundary
                           THEN ErrBadArguments(tasks[i].call.name, tasks[i].did.exc)
                           ELSE ErrException(tasks[i].did.exc),
                           IdOf(tasks[i].call))

\* C9: validation comes before admission control, which comes before the
\* lookup: a call that misses a required field while the window is full gets
\* the validation error, and a call naming an unregistered tool returns
\* "Unknown tool: '<name>'", nothing being invoked or recorded
C9_ValidationThenAdmissionThenLookup ==
    \A i \in StartedTasks :
        /\ (MissesRequired(tasks[i].call) /\ tasks[i].seen >= RateLimit) =>
               tasks[i].outcome.error = ErrInvalid(tasks[i].call.name)
        /\ (~Registered(tasks[i].call) /\ MappingArguments(tasks[i].call)) =>
               /\ tasks[i].outcome =
                      ToolResult(tasks[i].call.name, NONE, ErrUnknown(tasks[i].call.name),
                                 IdOf(tasks[i].call))
               /\ ~tasks[i].invoked
               /\ call_log[tasks[i].call.name] = <<>>

----------------------------------------------------------------------------
(* Properties of the conversation memory                                   *)

\* C10: after every mutating operation (add_message, summarize, load,
\* clear), in any sequence and for any max_history >= 0, the memory holds at
\* most max_history turns
C10_AtMostMaxHistory == Len(messages) <= max_history

\* the message that add_message stored when the clock read t
AddedAt(t) == Message(RoleAt(t + 1), TextAt(t + 1), t, count_tokens(TextAt(t + 1)))

\* C11: after n calls of add_message on an empty memory with max_history = k
\* and nothing else, the memory holds the last min(n, k) messages added, in
\* the order in which they were added: the oldest ones are the ones dropped
C11_OldestDroppedFirst ==
    adds # MIXED =>
        LET k == IF adds < max_history THEN adds ELSE max_history
        IN  /\ Len(messages) = k
            /\ \A j \in 1..k : messages[j] = AddedAt(now - k + j - 1)

\* more messages were added than the memory keeps, and some are kept
C11_Witness ==
    /\ adds # MIXED
    /\ adds > max_history + 1
    /\ max_history > 1
    /\ Len(messages) = max_history

\* the last query was get_context_window
AskedWindow == reply.query = "get_context_window"

\* C12: get_context_window on a memory with at least one turn never returns
\* an empty sequence, whatever the budget (0 and budgets below the tokens of
\* the most recent turn included): the most recent turn is in the result
C12_WindowNeverEmpty ==
    (AskedWindow /\ messages # <<>>) =>
        /\ reply.result # <<>>
        /\ reply.result[Len(reply.result)] = to_dict(messages[Len(messages)])

\* a window asked with a budget below the tokens of the most recent of
\* several turns
C12_Witness ==
    /\ AskedWindow
    /\ Len(messages) >= 2
    /\ reply.arg < Cost(messages[Len(messages)])
    /\ Len(reply.result) = 1

\* the summed token counts of the n most recent turns
RECURSIVE SuffixCost(_, _)
SuffixCost(msgs, n) ==
    IF n = 0 THEN 0 ELSE Cost(msgs[Len(msgs) - n + 1]) + SuffixCost(msgs, n - 1)

\* the length of the longest suffix of the turns that fits the budget
LongestFit(msgs, budget) ==
    CHOOSE n \in 0..Len(msgs) :
        /\ SuffixCost(msgs, n) <= budget
        /\ \A m \in 0..Len(msgs) : SuffixCost(msgs, m) <= budget => m <= n

\* C13: get_context_window returns, oldest first, the longest suffix of the
\* stored turns whose summed token counts fit the budget, or the most recent
\* turn alone when it does not fit; a result of two or more turns fits
C13_WindowIsLongestFittingSuffix ==
    AskedWindow =>
        LET fit == LongestFit(messages, reply.arg)
            n == IF fit = 0 /\ messages # <<>> THEN 1 ELSE fit
        IN  /\ reply.result =
                   [k \in 1..n |-> to_dict(messages[Len(messages) - n + k])]
            /\ Len(reply.result) >= 2 => SuffixCost(messages, n) <= reply.arg

\* a window of several turns that the budget cut short of the whole memory
C13_Witness ==
    /\ AskedWindow
    /\ Len(reply.result) >= 2
    /\ Len(reply.result) < Len(messages)

\* the step is a call of summarize: it hands back a summary or the empty
\* string, and no query result
SummarizeStep == last'.op = "summarize" /\ reply' = NoReply

\* C14: summarize on more than 10 turns leaves exactly 11: a new system
\* turn holding the summary, then the 10 most recent turns as they were and
\* in their order; it returns the summary text, which has one digest line
\* for each collapsed turn, in the order of the turns
C14_SummarizeKeepsTenRecent ==
    [][ (SummarizeStep /\ Len(messages) > 10) =>
            LET n == Len(messages)
                text == last'.returned
            IN  /\ Len(messages') = 11
                /\ messages'[1].role = "system"
                /\ messages'[1].content = text
                /\ \A j \in 1..10 : messages'[j + 1] = messages[n - 10 + j]
                /\ Len(text.lines) = n - 10
                /\ \A k \in 1..(n - 10) : text.lines[k] = Digest(messages[k]) ]_vars

\* a summary that collapsed two turns, the second one cut to 100 characters
C14_Witness ==
    /\ last.op = "summarize"
    /\ Len(last.returned.lines) = 2
    /\ last.returned.lines[2].cut
    /\ Len(messages) = 11
    /\ messages[1].content = last.returned

\* C15: summarize on 10 turns or fewer returns the empty string and leaves
\* the turns and max_history as they were
C15_SummarizeNoOpUpToTen ==
    [][ (SummarizeStep /\ Len(messages) <= 10) =>
            /\ last'.returned = NoText
            /\ messages' = messages
            /\ max_history' = max_history ]_vars

\* summarize was called on exactly 10 turns
C15_Witness ==
    /\ last = Outcome("summarize", "ok", NoText)
    /\ Len(messages) = 10

\* the step is a call of save(path): nothing else writes a session file
SaveStep(path) == files'[path] # files[path]

\* the step is a call of load(path) that returned normally
LoadStep(path) == last' = Outcome("load", "ok", NoText) /\ reply' = NoReply

\* C16: save(path) writes the turns and max_history of the memory, and a
\* later load(path), on the same memory or a new one, leaves the memory with
\* the turns that were saved, in order and equal in role, content, timestamp
\* and token count, and with the max_history that was saved
C16_SaveLoadRoundTrip ==
    [][ \A path \in Paths :
          /\ SaveStep(path) =>
                 /\ files'[path].exists /\ files'[path].has_messages
                 /\ files'[path].messages = messages
                 /\ files'[path].max_history = max_history
                 /\ UNCHANGED <<messages, max_history>>
          /\ (LoadStep(path) /\ files[path].saves > 0) =>
                 /\ messages' = files[path].messages
                 /\ max_history' = files[path].max_history ]_vars

\* a session of several turns, saved by a memory with max_history 2, was
\* loaded back at the end of the run
C16_Witness ==
    \E path \in Paths :
        /\ last = Outcome("load", "ok", NoText)
        /\ files[path].saves > 0
        /\ Len(messages) >= 2
        /\ messages = files[path].messages
        /\ max_history = 2
        /\ now = MaxClock

\* C17: load(path) raises to its caller when the file does not exist and
\* when its object has no field with the turns, with an error of a different
\* kind in each case: FileNotFoundError, ValueError
C17_LoadRaisesDistinctErrors ==
    \A path \in Paths :
        last.op = "load" =>
            /\ ~files[path].exists => last.status = "FileNotFoundError"
            /\ (files[path].exists /\ ~files[path].has_messages) =>
                   last.status = "ValueError"
            /\ last.status = "FileNotFoundError" => ~files[path].exists
            /\ last.status = "ValueError" => files[path].exists

\* load was called on a file whose object has no "messages"
C17_Witness ==
    \E path \in Paths :
        /\ last.op = "load"
        /\ files[path].exists
        /\ ~files[path].has_messages
        /\ last.status = "ValueError"

----------------------------------------------------------------------------
(* Properties of the device manager                                        *)

\* the serials that are authorized and online, as a discovery would find them
EligibleNow == { s \in Serials : channel = "ok" /\ adb_status[s] = "device" }

\* the first eligible serial in the order of the discovery output
FirstEligible ==
    DiscoveryOrder[CHOOSE k \in 1..Len(DiscoveryOrder) :
                       /\ DiscoveryOrder[k] \in EligibleNow
                       /\ \A j \in 1..(k - 1) : DiscoveryOrder[j] \notin EligibleNow]

\* the step begins a call of get_device
GetDeviceCalled == caller.pc = "idle" /\ caller'.op = "get_device"

\* the step is the discovery of a get_device call that has to re-select
Reselects == caller.op = "get_device" /\ caller.pc = "discover" /\ caller'.pc # "discover"

\* C18: get_device has to re-select when there is no cached handle or the
\* cached device no longer answers as connected; when the discovery then
\* holds no device that is authorized and online it raises NoDeviceError,
\* and the active serial and the cached handle stay as they were
C18_NoDeviceErrorKeepsSession ==
    [][ /\ (GetDeviceCalled /\ (bridge = NONE \/ active_serial = NONE
                                  \/ active_serial \notin EligibleNow)) =>
               /\ caller'.pc = "discover"
               /\ UNCHANGED <<active_serial, bridge>>
        /\ (Reselects /\ EligibleNow = {}) =>
               /\ caller'.pc = "done"
               /\ caller'.result = NoDeviceError
               /\ UNCHANGED <<active_serial, bridge>>
               /\ active_serial = caller.found.active_serial
               /\ bridge \in {caller.found.bridge, NONE} ]_vars

\* get_device found its cached device gone and only an unauthorized device
\* in the discovery: it raised, and the session is the one it found
C18_Witness ==
    /\ caller.op = "get_device"
    /\ caller.result = NoDeviceError
    /\ caller.found.bridge # NONE
    /\ bridge = caller.found.bridge
    /\ active_serial = caller.found.active_serial
    /\ Len(caller.devices) >= 1

\* C19: a get_device that re-selects with at least one eligible device
\* settles on the active serial when that one is eligible and on the first
\* eligible device of the discovery otherwise, and stores that serial and a
\* handle to it; so a device that reappears is bound again even when another
\* eligible device is listed before it
C19_PrefersActiveElseFirst ==
    [][ /\ (Reselects /\ EligibleNow # {}) =>
               /\ caller'.pc = "bind_serial"
               /\ caller'.device = IF active_serial \in EligibleNow
                                    THEN active_serial ELSE FirstEligible
        /\ (caller.op = "get_device" /\ caller.pc = "bind_bridge"
             /\ caller'.pc = "return") =>
               /\ active_serial' = caller.device
               /\ bridge' = caller.device ]_vars

\* the active device B lost its handle to the reconnect thread and came
\* back: get_device bound B again although A, listed first, is eligible
C19_Witness ==
    /\ caller.op = "get_device"
    /\ caller.result = Handle("B")
    /\ caller.discovered
    /\ caller.found = [active_serial |-> "B", bridge |-> NONE]
    /\ "A" \in SerialsOf(Authorized(caller.devices))
    /\ active_serial = "B"
    /\ bridge = "B"

\* C20: a cached handle is present only for a device that was authorized
\* and online in the discovery of the operation that selected it
C20_OnlyEligibleSelected == bridge # NONE => validated

\* the serials the discovery lists now, in the order of its output
IsListed(s) == channel = "ok" /\ adb_status[s] # "absent"
ListedNow == SelectSeq(DiscoveryOrder, IsListed)

\* the step begins a call of select_device
SelectDeviceCalled == caller.pc = "idle" /\ caller'.op = "select_device"

\* C21: select_device(serial) raises its own error, which lists the serials
\* of the discovery it made, when serial is not among them, and then leaves
\* the active serial and the cached handle alone; when serial is among them
\* it becomes the active serial, with a new cached handle that targets it
C21_SelectDeviceErrorOrBind ==
    [][ /\ (SelectDeviceCalled /\ ~IsListed(caller'.arg)) =>
               /\ caller'.pc = "done"
               /\ caller'.result.kind = "raised"
               /\ caller'.result.exc # NoDeviceError.exc
               /\ caller'.result.available = ListedNow
               /\ UNCHANGED <<active_serial, bridge>>
        /\ (SelectDeviceCalled /\ IsListed(caller'.arg)) =>
               /\ caller'.pc = "bind_serial"
               /\ caller'.device = caller'.arg
        /\ (caller.op = "select_device" /\ caller.pc = "bind_serial") =>
               (active_serial' = caller.arg \/ UNCHANGED caller)
        /\ (caller.op = "select_device" /\ caller.pc = "bind_bridge"
             /\ caller'.pc = "done") =>
               /\ caller'.result = ReturnsNone
               /\ active_serial' = caller.arg
               /\ bridge' = caller.arg ]_vars

\* select_device("B") failed while A was listed and was the active session:
\* the error names A, and the session is still A
C21_Witness ==
    /\ caller.op = "select_device"
    /\ caller.arg = "B"
    /\ caller.result.exc = "ValueError"
    /\ caller.result.available = <<"A">>
    /\ caller.found = [active_serial |-> "A", bridge |-> "A"]
    /\ active_serial = "A"
    /\ bridge = "A"

----------------------------------------------------------------------------
(* Properties of the reconnect loop                                        *)

\* the reconnect thread of a run that starts only one
Poller == loops[1]

\* the step tells the callbacks of one more event; Told is that event
Tells == Len(events') = Len(events) + 1
Told == events'[Len(events')]

\* the event was told before in this poll
ToldBefore(kind, serial) ==
    \E k \in 1..Len(events) : events[k].kind = kind /\ events[k].serial = serial

\* the step ends a poll that went through
EndsPoll == Poller.pc = "events" /\ Poller'.pc = "check"

\* C22: with P the online serials of the previous poll and C those of the
\* current poll, every registered connect callback is called exactly once
\* for each serial of C \ P, every registered disconnect callback exactly
\* once for each serial of P \ C, and no callback for any other serial; the
\* poll leaves C as the next P, so a device that stays offline is told once
C22_CallbacksFollowTheDifference ==
    [][ /\ (Poller.pc = "poll" /\ Poller'.pc = "events") =>
               Poller'.current = EligibleNow
        /\ Tells =>
               /\ ~ToldBefore(Told.kind, Told.serial)
               /\ Told.kind = "connect" =>
                      /\ Told.serial \in Poller.current \ last_known
                      /\ Told.invoked = Len(connect_callbacks)
               /\ Told.kind = "disconnect" =>
                      /\ Told.serial \in last_known \ Poller.current
                      /\ Told.invoked = Len(disconnect_callbacks)
        /\ EndsPoll =>
               /\ \A serial \in Poller.current \ last_known :
                      ToldBefore("connect", serial)
               /\ \A serial \in last_known \ Poller.current :
                      ToldBefore("disconnect", serial)
               /\ Len(events) = Cardinality(Poller.current \ last_known)
                                + Cardinality(last_known \ Poller.current)
               /\ last_known' = Poller.current ]_vars

\* A went offline between two polls: both disconnect callbacks were told,
\* once, and the poll is over with no serial left online
C22_Witness ==
    /\ events = <<Event("disconnect", "A", 2, FALSE)>>
    /\ Len(disconnect_callbacks) = 2
    /\ Poller.pc = "check"
    /\ last_known = {}

\* C23: when the active device was online at one poll and is not at the
\* next, each disconnect callback is told of it once and the cached handle
\* is dropped; a get_device that finds no cached handle makes a discovery,
\* and a handle that get_device returns without one is of a device that
\* answers as connected
C23_ActiveDisconnectForcesReselect ==
    [][ /\ (Tells /\ Told.kind = "disconnect" /\ Told.serial = active_serial) =>
               /\ Told.serial \in last_known
               /\ Told.serial \notin Poller.current
               /\ ~ToldBefore("disconnect", Told.serial)
               /\ Told.invoked = Len(disconnect_callbacks)
               /\ bridge' = NONE
        /\ (GetDeviceCalled /\ bridge = NONE) => caller'.pc = "discover"
        /\ (GetDeviceCalled /\ caller'.result.kind = "handle") =>
               /\ bridge # NONE
               /\ caller'.result.serial \in EligibleNow ]_vars

\* the active device A went offline, the reconnect thread told the
\* disconnect callback and dropped the handle, and the get_device that
\* followed made a discovery
C23_Witness ==
    /\ caller.op = "get_device"
    /\ caller.found = [active_serial |-> "A", bridge |-> NONE]
    /\ caller.discovered
    /\ \E k \in 1..Len(events) :
          /\ events[k].kind = "disconnect"
          /\ events[k].serial = "A"
          /\ events[k].invoked >= 1

\* C24: when a callback raises, the callbacks after it are called all the
\* same, the thread stays in its poll with the other events still due, the
\* cached handle of a disconnected active device is dropped, and the poll
\* ends by remembering the online serials; a poll is cut short only by a
\* failed discovery, and the thread never ends on an error
C24_RaisingCallbackStopsNothing ==
    [][ /\ (Tells /\ Told.raised) =>
               /\ Told.invoked = IF Told.kind = "connect"
                                  THEN Len(connect_callbacks)
                                  ELSE Len(disconnect_callbacks)
               /\ Poller'.pc = "events"
               /\ Poller'.current = Poller.current
               /\ Poller'.connected = Poller.connected \ {Told.serial}
               /\ Poller'.disconnected =
                      IF Told.kind = "connect" THEN Poller.disconnected
                      ELSE Poller.disconnected \ {Told.serial}
               /\ (Told.kind = "disconnect" /\ Told.serial = active_serial) =>
                      bridge' = NONE
        /\ (Poller'.pc = "caught") => events' = <<>>
        /\ (Poller.pc = "events") => Poller'.pc \in {"events", "check"}
        /\ EndsPoll => last_known' = Poller.current ]_vars

\* the first of two disconnect callbacks raised when told that the active
\* device A went offline: both were called, the handle is dropped and the
\* poll ended with no serial left online
C24_Witness ==
    /\ events = <<Event("disconnect", "A", 2, TRUE)>>
    /\ active_serial = "A"
    /\ bridge = NONE
    /\ Poller.pc = "check"
    /\ last_known = {}
    /\ reconnect_running

\* C25: an error of the discovery inside a poll is caught in the loop: the
\* thread does not end, keeps the serials it knew, sleeps and tests the
\* flag again; so after every poll, failed or not, another poll begins
\* unless the flag was cleared
C25_PollErrorsAreSurvived ==
    /\ [][ /\ (Poller.pc = "poll" /\ DiscoveryRaises(channel)) =>
                  Poller'.pc \in {"poll", "caught"}
           /\ (Poller.pc = "caught") =>
                  /\ Poller'.pc \in {"caught", "check"}
                  /\ last_known' = last_known ]_vars
    /\ (Poller.pc \in {"events", "caught"}) ~>
           (Poller.pc = "poll" \/ ~reconnect_running)

\* the discovery of the previous poll raised, and the thread polls again
C25_Witness ==
    /\ Poller.pc = "poll"
    /\ Poller.failed
    /\ reconnect_running

\* C26: once stop_auto_reconnect has cleared the flag, the reconnect thread
\* comes to test it and ends, and an ended thread polls no more;
\* stop_auto_reconnect comes back from its join whether the thread has ended
\* or not
C26_StopEndsTheLoop ==
    /\ [][ /\ (Poller.pc = "exited") => Poller'.pc = "exited"
           /\ (Poller.pc = "check" /\ ~reconnect_running /\ Poller' # Poller) =>
                  Poller'.pc = "exited" ]_vars
    /\ (~reconnect_running /\ Poller.pc # "unstarted") ~> (Poller.pc = "exited")
    /\ (caller.op = "stop_auto_reconnect" /\ caller.pc = "join") ~> (caller.pc = "done")

\* stop_auto_reconnect is back from its join while the thread, which had
\* polled before, is still in a poll: the thread has yet to see the flag
C26_Witness ==
    /\ caller.op = "stop_auto_reconnect"
    /\ caller.pc = "done"
    /\ ~reconnect_running
    /\ Poller.pc = "events"
    /\ last_known # {}

----------------------------------------------------------------------------
(* Further properties of the dispatcher                                    *)

\* C27: in a batch, a tool that never returns keeps no other call from being
\* invoked and from completing, and the caller of execute_batch has its
\* answer, a list of results, only when every call of the batch is through
\* (stated here: whenever the caller is answered, every coroutine of the
\* batch has ended and the answer is the list)
C27_BatchAnsweredWhenAllThrough ==
    (op = "batch" /\ ret # NoReturn) =>
        /\ AllDone
        /\ ret.kind = "returned"

\* the timestamps of a tool that lie inside the trailing 60 seconds
Recent(name) == { k \in 1..Len(call_log[name]) : call_log[name][k] >= now - WINDOW_SECS }

\* the step is a call of get_call_stats
AsksStats == stats = NoStats /\ stats' # NoStats

\* C28: get_call_stats returns one entry for each tool with at least one
\* recorded invocation inside the trailing 60 seconds, its value the number
\* of those invocations and at most the configured limit, and no entry for
\* any other tool; the call leaves every rate window as it was
C28_StatsCountTheWindow ==
    [][ AsksStats =>
          /\ stats'.kind = "returned"
          /\ \A name \in LogKeys :
                 IF Recent(name) = {}
                 THEN \A e \in stats'.entries : e[1] # name
                 ELSE /\ <<name, Cardinality(Recent(name))>> \in stats'.entries
                      /\ \A e \in stats'.entries :
                             e[1] = name => e[2] = Cardinality(Recent(name))
                      /\ Cardinality(Recent(name)) <= RateLimit
          /\ \A e \in stats'.entries : e[1] \in LogKeys
          /\ UNCHANGED <<call_log, now, op, tasks, ret>> ]_vars

\* the stats report ping at its limit and leave out weather, whose only
\* invocation is older than 60 seconds, and ghost, which was only rejected
C28_Witness ==
    /\ stats = Stats({<<"ping", RateLimit>>})
    /\ Cardinality(Recent("ping")) = RateLimit
    /\ call_log["weather"] # <<>>
    /\ Recent("weather") = {}
    /\ call_log["ghost"] = <<>>

\* C30: every ToolResult that execute returns has succeeded true exactly
\* when it has no error, which is exactly when its tool was invoked and
\* returned; a ToolResult with an error has no result; and it carries the
\* tool name and the call id of the call it answers
C30_ToolResultWellFormed ==
    \A i \in 1..Len(tasks) :
        (tasks[i].pc = "done" /\ tasks[i].outcome.kind = "ToolResult") =>
            LET r == tasks[i].outcome
            IN  /\ succeeded(r) <=> (r.error = NoError)
                /\ succeeded(r) <=> (tasks[i].did.kind = "returned")
                /\ (r.error # NoError) => (r.result = NONE)
                /\ r.tool_name = tasks[i].call.name
                /\ r.call_id = IdOf(tasks[i].call)
                /\ (op = "execute" /\ ret # NoReturn) => ret = ReturnsList(<<r>>)

\* execute returned the ToolResult of a call whose tool raised: it carries
\* the error, no result, and the name and id of the call
C30_Witness ==
    /\ op = "execute"
    /\ ret.kind = "returned"
    /\ tasks[1].did.kind = "raised"
    /\ ~succeeded(ret.results[1])
    /\ ret.results[1].result = NONE
    /\ ret.results[1].tool_name = "weather"
    /\ ret.results[1].call_id = "c1"

----------------------------------------------------------------------------
(* Properties of the shutdown                                              *)

\* the step is one of the handler
HandlerSteps == shutdown' # shutdown

\* C29: on a shutdown signal the handler saves the conversation memory,
\* then stops the reconnect thread with its bounded join, then exits; it
\* goes on to stop the thread and to exit also when the save fails, and
\* when the save went through the file holds the memory as it is at exit
C29_ShutdownSavesAndStops ==
    [][ /\ (HandlerSteps /\ shutdown.pc = "serving") => shutdown'.pc = "saving"
        /\ (HandlerSteps /\ shutdown.pc = "saving") =>
               /\ shutdown'.pc = "stopping"
               /\ shutdown'.saved \in {"ok", "failed"}
        /\ (HandlerSteps /\ shutdown.pc = "stopping") =>
               /\ ~reconnect_running'
               /\ shutdown'.pc = IF Poller.pc \in {"unstarted", "exited"}
                                  THEN "exiting" ELSE "joining"
        /\ (HandlerSteps /\ shutdown.pc = "joining") => shutdown'.pc = "exiting"
        /\ (HandlerSteps /\ shutdown.pc = "exiting") =>
               /\ shutdown'.pc = "exited"
               /\ shutdown.saved # "none"
               /\ ~reconnect_running
               /\ shutdown.saved = "ok" =>
                      \A path \in Paths :
                          /\ files[path].exists
                          /\ files[path].messages = messages
                          /\ files[path].max_history = max_history
        /\ (shutdown.pc = "exited") => UNCHANGED vars ]_vars

\* the runtime has exited after a save that failed: the flag of the
\* reconnect thread, which was polling, is cleared all the same
C29_Witness ==
    /\ shutdown = [pc |-> "exited", saved |-> "failed"]
    /\ ~reconnect_running
    /\ Poller.pc \notin {"unstarted", "exited"}
    /\ messages # <<>>
    /\ \A path \in Paths : ~files[path].exists

----------------------------------------------------------------------------
(* Further properties of the device manager                                *)

\* the serials the discovery command reports now, in the order of its output
Reported == SelectSeq(DiscoveryOrder, LAMBDA s : adb_status[s] # "absent")

\* a call of list_devices whose discovery command ran
ListDevicesCalled ==
    /\ caller.pc = "idle"
    /\ caller'.op = "list_devices"
    /\ channel = "ok"

\* the fields that enrichment fills in all read "unknown"
AllUnknown(d) ==
    /\ d.model = UNKNOWN
    /\ d.manufacturer = UNKNOWN
    /\ d.android_version = UNKNOWN
    /\ d.sdk_version = UNKNOWN

\* C31: list_devices returns one DeviceInfo for every device the discovery
\* command reports, in discovery order; a device whose status is not "device"
\* is listed too, flagged as not online and not authorized; when the queries
\* of an online device fail, its model, manufacturer and OS version read
\* "unknown", the device stays in the list and list_devices does not raise
C31_ListsEveryReportedDevice ==
    [][ ListDevicesCalled =>
          /\ caller'.result = ReturnsDevices
          /\ Len(caller'.devices) = Len(Reported)
          /\ \A k \in 1..Len(Reported) :
                LET d == caller'.devices[k]
                    probe == caller'.arg[Reported[k]]
                    online == adb_status[Reported[k]] = "device"
                IN  /\ d.serial = Reported[k]
                    /\ d.is_online = online
                    /\ d.is_authorized = online
                    /\ ~online => AllUnknown(d)
                    /\ online /\ probe.raises => AllUnknown(d)
                    /\ online =>
                          \A key \in {"model", "manufacturer", "android_version"} :
                             key \in probe.failing => d[key] = UNKNOWN ]_vars

\* an unauthorized device is listed before an online one whose queries fail
C31_Witness ==
    /\ caller.op = "list_devices"
    /\ caller.result = ReturnsDevices
    /\ Len(caller.devices) = 2
    /\ ~caller.devices[1].is_authorized
    /\ caller.devices[2].is_online
    /\ caller.arg["B"].raises
    /\ AllUnknown(caller.devices[2])

\* the threads that are inside a poll of the reconnect loop
Polling == { t \in LoopIds : loops[t].pc \in {"poll", "events", "caught"} }

\* C32: at most one reconnect loop is running at any time: a thread started
\* before a stop_auto_reconnect is never inside a poll while a thread started
\* by a later auto_reconnect is inside one
C32_AtMostOneLoop == Cardinality(Polling) <= 1

\* a poll of thread t whose discovery command could not be run: the binary
\* is missing or the command timed out
FailedPoll(t) ==
    /\ loops[t].pc = "poll"
    /\ channel = "missing"
    /\ loops'[t].pc = "events"

\* C33: a poll whose discovery command fails finds no serial to tell the
\* connect or the disconnect callbacks of, hence clears no handle, and the
\* online set it is about to remember is the last-known one
C33_FailedDiscoveryChangesNothing ==
    [][ \A t \in LoopIds :
          FailedPoll(t) =>
             /\ loops'[t].connected = {}
             /\ loops'[t].disconnected = {}
             /\ loops'[t].current = last_known ]_vars

\* the step ends a call of get_device that made a discovery
GetDeviceReturns == caller.op = "get_device" /\ caller.pc = "return" /\ caller'.pc = "done"

\* the discovery of the call in progress found the serial authorized and online
SeenEligible(serial) ==
    /\ caller.discovered
    /\ \E k \in 1..Len(caller.devices) :
          /\ caller.devices[k].serial = serial
          /\ caller.devices[k].is_online
          /\ caller.devices[k].is_authorized

\* C34: a handle that get_device returns is of a device that a check of the
\* same call found authorized and online: the cached handle is returned only
\* when its device answers as connected at that call, and a handle returned
\* after a discovery is of a device that this discovery found eligible
C34_HandleCheckedInTheCall ==
    [][ /\ (GetDeviceCalled /\ caller'.result.kind = "handle") =>
               /\ caller'.result.serial = active_serial
               /\ caller'.result.serial = bridge
               /\ caller'.result.serial \in EligibleNow
        /\ (GetDeviceCalled /\ caller'.result.kind # "handle") =>
               caller'.result.kind = "raised" \/ caller'.pc = "discover"
        /\ (GetDeviceReturns /\ caller'.result.kind = "handle") =>
               SeenEligible(caller'.result.serial) ]_vars

\* select_device bound A while it was unauthorized; A was authorized later,
\* and get_device returned the cached handle after its own check
C34_Witness ==
    /\ caller.op = "get_device"
    /\ caller.result = Handle("A")
    /\ ~caller.discovered
    /\ caller.found = [active_serial |-> "A", bridge |-> "A"]
    /\ ~validated

\* the serial that was active when the call in progress began
ActiveAtCall == caller.found.active_serial

\* C35: while the device that was active when get_device was called stays
\* authorized and online, and select_device is not called, the active serial
\* stays that serial, and the call hands back a handle that targets it,
\* whatever the other devices and the reconnect thread do
C35_ActiveDeviceIsKept ==
    (caller.op = "get_device" /\ ActiveAtCall # NONE
       /\ adb_status[ActiveAtCall] = "device") =>
          /\ active_serial = ActiveAtCall
          /\ caller.pc = "done" => caller.result = Handle(ActiveAtCall)

\* no get_device and no select_device call is between its first and its
\* last line
NoSelectionInProgress == caller.pc \in {"idle", "done"}

\* a cached handle goes with an active serial, and targets it
SessionConsistent == bridge # NONE => (active_serial # NONE /\ bridge = active_serial)

\* the step is one of a reconnect thread
LoopActs == \E t \in LoopIds : loops[t].pc # "unstarted" /\ loops'[t] # loops[t]

\* C36: whenever no get_device or select_device call is in progress, a
\* cached handle goes with an active serial and targets exactly that serial;
\* a step of the reconnect thread leaves the active serial alone, and leaves
\* the cached handle alone or clears it
C36_SessionConsistentBetweenCalls ==
    /\ NoSelectionInProgress => SessionConsistent
    /\ [][ /\ NoSelectionInProgress' => SessionConsistent'
           /\ LoopActs =>
                 /\ active_serial' = active_serial
                 /\ bridge' \in {bridge, NONE} ]_vars

\* between two calls, after select_device moved the session from A to B and
\* the reconnect thread cleared the handle: B is still the active serial
C36_Witness ==
    /\ caller.pc = "idle"
    /\ active_serial = "B"
    /\ bridge = NONE
    /\ last_known = {"A"}
    /\ Poller.pc = "check"

----------------------------------------------------------------------------
(* Further properties of the conversation memory                           *)

\* the step is a load that raised
LoadFails == last'.op = "load" /\ last'.status # "ok" /\ last' # last

\* C37: a load that fails, for whatever reason, leaves the messages and
\* max_history of the memory as they were before the call
C37_FailedLoadKeepsMemory ==
    [][ LoadFails => UNCHANGED <<messages, max_history>> ]_vars

----------------------------------------------------------------------------
(* The rate window and tools that fail                                     *)

\* the step sees the tool of a coroutine raise
ToolFails == \E i \in 1..Len(tasks) : tasks[i].pc = "running" /\ tasks'[i].did.kind = "raised"

\* C38: an admitted call takes one slot of its tool's window, at the step
\* that invokes the tool, and keeps it when the tool raises; so with tools
\* that always raise, a valid call that finds N timestamps of its tool in
\* the trailing window is turned down by the rate limit and its tool is not
\* invoked
C38_FailedCallsKeepTheirSlot ==
    /\ [][ /\ ToolFails => call_log' = call_log
           /\ \A i \in NewlyInvoked :
                 LET k == tasks'[i].outcome.tool_name
                 IN  call_log'[k] # <<>> /\ call_log'[k][Len(call_log'[k])] = now ]_vars
    /\ [](\A i \in StartedTasks :
            (ValidCall(tasks[i].call) /\ tasks[i].seen >= RateLimit) =>
                /\ ~tasks[i].invoked
                /\ tasks[i].outcome.kind # "raised"
                /\ tasks[i].outcome.error = ErrRateLimit(tasks[i].call.name, RateLimit))

----------------------------------------------------------------------------
(* The history handed to the LLM                                           *)

\* the least of two numbers
Min(a, b) == IF a <= b THEN a ELSE b

\* C39: get_history(max_turns) returns the min(max_turns, n) most recent of
\* the n stored messages, oldest first, as role and content, for every
\* max_turns >= 0: never more than max_turns messages
C39_HistoryAtMostMaxTurns ==
    reply.query = "get_history" =>
        LET n == Len(messages)
            m == Min(reply.arg, n)
        IN  /\ Len(reply.result) <= reply.arg
            /\ Len(reply.result) = m
            /\ \A k \in 1..Len(reply.result) :
                  /\ n - Len(reply.result) + k \in 1..n
                  /\ reply.result[k].role = messages[n - Len(reply.result) + k].role
                  /\ reply.result[k].content = messages[n - Len(reply.result) + k].content

\* ---------------------------------------------------------------------------
\* The planner
\* ---------------------------------------------------------------------------

\* the steps a plan of a run has at most
MaxSteps == 3

\* StepStatus
PENDING == "pending"
RUNNING == "running"
DONE == "done"
FAILED == "failed"

\* a Step as Plan.add_step makes it: pending, no result (id, description,
\* tool and inputs are never read by execute_plan's loop but for the call)
Step(id) == [id |-> id, status |-> PENDING, result |-> <<>>]

\* what a tool_executor hands back: strings, spelled out character by
\* character: "ok", "err", "Error", "ERRORS"
Results ==
    { <<"o", "k">>,
      <<"e", "r", "r">>,
      <<"E", "r", "r", "o", "r">>,
      <<"E", "R", "R", "O", "R", "S">> }

\* str.lower() over the letters of Results
LowerChar(c) ==
    CASE c = "E" -> "e"
      [] c = "R" -> "r"
      [] c = "O" -> "o"
      [] c = "S" -> "s"
      [] OTHER -> c
Lower(str) == [i \in 1..Len(str) |-> LowerChar(str[i])]

\* Python's `word in str`
Contains(str, word) ==
    \E k \in 0..(Len(str) - Len(word)) : SubSeq(str, k + 1, k + Len(word)) = word

ERROR_WORD == <<"e", "r", "r", "o", "r">>

\* the status execute_plan gives a step whose tool handed back `result`
StatusOf(result) == IF ~Contains(Lower(result), ERROR_WORD) THEN DONE ELSE FAILED

\* Python's None where a Step is expected
NoStep == [id |-> 0, status |-> NONE, result |-> <<>>]

\* Plan.next_step: the first pending step, or None
next_step(steps) ==
    IF \E i \in 1..Len(steps) : steps[i].status = PENDING
    THEN steps[CHOOSE i \in 1..Len(steps) :
                   /\ steps[i].status = PENDING
                   /\ \A j \in 1..(i - 1) : steps[j].status # PENDING]
    ELSE NoStep

\* Plan.is_complete
is_complete(steps) == \A i \in 1..Len(steps) : steps[i].status \in {DONE, FAILED}

\* (variant: the loop ends at the first step that failed)
ContinuesUntilFailure(steps, at) ==
    at < Len(steps) /\ (IF at = 0 THEN TRUE ELSE steps[at].status # FAILED)
\* `for step in plan.steps`: there is a step after the first `at` ones
Continues(steps, at) == at < Len(steps)

PlannerOnly == UNCHANGED <<dispatcherVars, memoryVars, deviceVars, shutdown>>

\* Plan(goal): a plan without steps; whatever plan was there is dropped
NewPlan ==
    /\ plan.pc \in {"none", "returned", "raised"}
    /\ plan' = [steps |-> <<>>, pc |-> "made", at |-> 0]
    /\ PlannerOnly

\* Plan.add_step
AddStep ==
    /\ plan.pc = "made"
    /\ Len(plan.steps) < MaxSteps
    /\ plan' = [plan EXCEPT !.steps = Append(@, Step(Len(plan.steps) + 1))]
    /\ PlannerOnly

\* Planner.execute_plan is called on the plan
ExecutePlan ==
    /\ plan.pc = "made"
    /\ plan' = [plan EXCEPT !.pc = "loop", !.at = 0]
    /\ PlannerOnly

\* the loop takes the next step, marks it running and calls the tool_executor
StepRuns ==
    /\ plan.pc = "loop"
    /\ Continues(plan.steps, plan.at)
    /\ plan' = [plan EXCEPT !.steps[plan.at + 1].status = RUNNING,
                            !.at = plan.at + 1,
                            !.pc = "call"]
    /\ PlannerOnly

\* the tool_executor hands back a string
ToolExecutorReturns(result) ==
    /\ plan.pc = "call"
    /\ plan' = [plan EXCEPT !.steps[plan.at].result = result,
                            !.steps[plan.at].status = StatusOf(result),
                            !.pc = "loop"]
    /\ PlannerOnly

\* the tool_executor raises: nothing in execute_plan catches it
ToolExecutorRaises ==
    /\ plan.pc = "call"
    /\ plan' = [plan EXCEPT !.pc = "raised"]
    /\ PlannerOnly

\* the loop is over: execute_plan returns plan.summary()
PlanReturns ==
    /\ plan.pc = "loop"
    /\ ~Continues(plan.steps, plan.at)
    /\ plan' = [plan EXCEPT !.pc = "returned"]
    /\ PlannerOnly

PlannerNext ==
    \/ NewPlan
    \/ AddStep
    \/ ExecutePlan
    \/ StepRuns
    \/ \E result \in Results : ToolExecutorReturns(result)
    \/ ToolExecutorRaises
    \/ PlanReturns

InitPlanner == Init

SpecPlanner == InitPlanner /\ [][PlannerNext]_vars

\* C40: execute_plan, given a plan whose steps are all pending, runs the steps
\* one after the other in list order: a step's status only ever goes from
\* pending to running and from running to done or failed, and a step is
\* started only when every step before it is done or failed; a step that
\* failed is followed by the later steps; and when execute_plan returns
\* every step is done or failed, is_complete() is true and next_step()
\* returns None.
Executing == plan.pc \in {"loop", "call", "returned", "raised"}
StatusMoves == { <<PENDING, RUNNING>>, <<RUNNING, DONE>>, <<RUNNING, FAILED>> }
C40_StepsRunInOrderToTheEnd ==
    /\ [][(Executing /\ plan'.pc # "made") =>
            /\ Len(plan'.steps) = Len(plan.steps)
            /\ \A i \in 1..Len(plan.steps) :
                   plan'.steps[i].status # plan.steps[i].status =>
                       <<plan.steps[i].status, plan'.steps[i].status>> \in StatusMoves
            /\ Cardinality({ i \in 1..Len(plan.steps) :
                   plan'.steps[i].status # plan.steps[i].status }) <= 1]_vars
    /\ [](Executing =>
            \A j \in 1..Len(plan.steps) :
                plan.steps[j].status # PENDING =>
                    \A i \in 1..(j - 1) : plan.steps[i].status \in {DONE, FAILED})
    /\ []((Executing /\ plan.pc # "raised") =>
            Cardinality({ i \in 1..Len(plan.steps) : plan.steps[i].status = RUNNING })
                = (IF plan.pc = "call" THEN 1 ELSE 0))
    /\ [](plan.pc = "returned" =>
            /\ \A i \in 1..Len(plan.steps) : plan.steps[i].status \in {DONE, FAILED}
            /\ is_complete(plan.steps)
            /\ next_step(plan.steps) = NoStep)

\* execute_plan has returned from a plan whose first step failed and whose
\* second step, run after it, is done
C40_Witness ==
    /\ plan.pc = "returned"
    /\ Len(plan.steps) >= 2
    /\ plan.steps[1].status = FAILED
    /\ plan.steps[2].status = DONE

====
